---- MODULE Spec2Model ----
(***************************************************************************)
(* Model of the Stellar-Market-Identity insurance contracts: the shared    *)
(* authorization library, the risk-pool liquidity ledger and the claims    *)
(* lifecycle contract (smartcontract/contracts/{authorization,risk_pool,   *)
(* claims}).  Each contract entry point is an operator over the storage of *)
(* the contract(s) it touches, returning [res, ...storage after the writes *)
(* the code performed before it returned]; the Soroban host commits those  *)
(* writes only when the top-level invocation returns Ok (HostCommit).      *)
(***************************************************************************)
EXTENDS Integers, Sequences, FiniteSets, TLC

\* ---------------------------------------------------------------- bounds
\* Stand-in for i128::MAX: amounts live in MinI128..MaxI128 and checked_add /
\* checked_sub fail outside that range, as they do at 2^127 - 1.
MaxI128 == 4
MinI128 == (0 - MaxI128) - 1
\* Highest ledger sequence number the ledger clock reaches.
MaxLedger == 1

\* ---------------------------------------------------------------- identities
ClaimsAddr == "claims"
PoolAddr == "pool"
PolicyAddr == "policy"
OracleAddr == "oracle"
TokenAddr == "xlm"
\* Accounts that can sign a top-level invocation.
Accounts == {"admin", "proc", "user"}
Addresses == Accounts \cup {ClaimsAddr, PoolAddr, PolicyAddr, OracleAddr}

\* Inputs offered to the amount parameters.
Amounts == {0 - 1, 0, 1, 2, MaxI128}

\* ---------------------------------------------------------------- checked arithmetic
\* i128::checked_add / checked_sub: <<v>> on success, <<>> on overflow.
InRange(v) == MinI128 <= v /\ v <= MaxI128
checked_add(a, b) == IF InRange(a + b) THEN <<a + b>> ELSE <<>>
checked_sub(a, b) == IF InRange(a - b) THEN <<a - b>> ELSE <<>>

\* ---------------------------------------------------------------- authorization library
\* Storage of the library inside one contract: ContractAdmin, UserRole(addr),
\* TrustedContract(addr).
AuthEmpty == [admin |-> {}, roles |-> <<>>, trusted |-> {}]

Put(f, k, v) == [x \in (DOMAIN f) \cup {k} |-> IF x = k THEN v ELSE f[x]]
Remove(f, k) == [x \in (DOMAIN f) \ {k} |-> f[x]]

can_admin(role) == role = "Admin"
can_manage_policies(role) == role \in {"Admin", "PolicyManager"}
can_process_claims(role) == role \in {"Admin", "ClaimProcessor"}
can_manage_risk_pool(role) == role \in {"Admin", "RiskPoolManager"}
can_govern(role) == role \in {"Admin", "Governance"}
\* Variant of can_submit_claim that admits every role:
can_submit_claim_all(role) == TRUE

can_submit_claim(role) == role # "ClaimProcessor"

initialize_admin(a, admin) ==
    [a EXCEPT !.admin = {admin}, !.roles = Put(a.roles, admin, "Admin")]

get_admin(a) == a.admin

get_role(a, address) ==
    IF address \in DOMAIN a.roles THEN a.roles[address] ELSE "User"

require_role(a, address, required_role) ==
    IF get_role(a, address) = required_role THEN "Ok" ELSE "Unauthorized"

require_admin(a, address) == require_role(a, address, "Admin")

\* Variant of grant_role that does not test the caller's role:
grant_role_open(a, caller, target, role) ==
    [res |-> "Ok", a |-> [a EXCEPT !.roles = Put(a.roles, target, role)]]

grant_role(a, caller, target, role) ==
    IF require_role(a, caller, "Admin") # "Ok"
    THEN [res |-> "Unauthorized", a |-> a]
    ELSE [res |-> "Ok", a |-> [a EXCEPT !.roles = Put(a.roles, target, role)]]

\* Variant of revoke_role without the self-revocation safeguard:
revoke_role_unguarded(a, caller, target) ==
    IF require_role(a, caller, "Admin") # "Ok"
    THEN [res |-> "Unauthorized", a |-> a]
    ELSE [res |-> "Ok", a |-> [a EXCEPT !.roles = Put(a.roles, target, "User")]]

\* Variant of revoke_role that reports success and leaves the target's role.
revoke_role_keeping(a, caller, target) ==
    IF require_role(a, caller, "Admin") # "Ok"
    THEN [res |-> "Unauthorized", a |-> a]
    ELSE IF caller = target
    THEN [res |-> "Unauthorized", a |-> a]
    ELSE [res |-> "Ok", a |-> a]

revoke_role(a, caller, target) ==
    IF require_role(a, caller, "Admin") # "Ok"
    THEN [res |-> "Unauthorized", a |-> a]
    ELSE IF caller = target
    THEN [res |-> "Unauthorized", a |-> a]
    ELSE [res |-> "Ok", a |-> [a EXCEPT !.roles = Put(a.roles, target, "User")]]

require_claim_processing(a, address) ==
    IF can_process_claims(get_role(a, address)) THEN "Ok" ELSE "Unauthorized"

require_risk_pool_management(a, address) ==
    IF can_manage_risk_pool(get_role(a, address)) THEN "Ok" ELSE "Unauthorized"

register_trusted_contract(a, caller, contract_address) ==
    IF require_admin(a, caller) # "Ok"
    THEN [res |-> "Unauthorized", a |-> a]
    ELSE [res |-> "Ok", a |-> [a EXCEPT !.trusted = a.trusted \cup {contract_address}]]

unregister_trusted_contract(a, caller, contract_address) ==
    IF require_admin(a, caller) # "Ok"
    THEN [res |-> "Unauthorized", a |-> a]
    ELSE [res |-> "Ok", a |-> [a EXCEPT !.trusted = a.trusted \ {contract_address}]]

is_trusted_contract(a, contract_address) == contract_address \in a.trusted

\* Variant of require_trusted_contract that accepts every caller:
require_trusted_contract_open(a, contract_address) == "Ok"

require_trusted_contract(a, contract_address) ==
    IF is_trusted_contract(a, contract_address) THEN "Ok" ELSE "NotTrustedContract"

\* ---------------------------------------------------------------- risk pool contract
\* Persistent storage of RiskPoolContract.  PAUSED and RSV_TOT are read with
\* unwrap_or(false) / unwrap_or(0), so an absent key is modelled by that default;
\* CONFIG and POOL_ST are <<>> while absent.
\* stats = <<stats.0 total_liquidity, stats.1 total_paid_out, stats.2, stats.3>>.
PoolEmpty ==
    [auth |-> AuthEmpty, paused |-> FALSE, config |-> <<>>, stats |-> <<>>,
     reserved_total |-> 0, reservation |-> <<>>, provider |-> <<>>]

Result(res, st) == [res |-> res, st |-> st]

\* Variant of is_paused that never reports a pause.
is_paused_never(st) == FALSE

is_paused(st) == st.paused
set_paused(st, paused) == [st EXCEPT !.paused = paused]

\* Two's-complement wrap of an unchecked i128 addition (overflow-checks off).
Modulus == (MaxI128 - MinI128) + 1
Wrap(v) == IF v > MaxI128 THEN v - Modulus ELSE IF v < MinI128 THEN v + Modulus ELSE v

check_liquidity_invariant(st) ==
    IF st.stats = <<>> THEN "NotFound"
    ELSE IF st.stats[1] < st.reserved_total THEN "LiquidityViolation"
    ELSE "Ok"

validate_amount(amount) == IF amount <= 0 THEN "InvalidAmount" ELSE "Ok"

\* Variant of initialize without the already-initialized test:
pool_initialize_repeatable(st, admin, xlm_token, min_provider_stake, claims_contract) ==
    IF min_provider_stake <= 0 THEN Result("InvalidInput", st)
    ELSE LET a1 == initialize_admin(st.auth, admin)
             r2 == register_trusted_contract(a1, admin, claims_contract)
         IN IF r2.res # "Ok" THEN Result(r2.res, [st EXCEPT !.auth = a1])
            ELSE Result("Ok", [st EXCEPT !.auth = r2.a,
                                         !.config = <<xlm_token, min_provider_stake>>,
                                         !.stats = <<0, 0, 0, 0>>])

pool_initialize(st, admin, xlm_token, min_provider_stake, claims_contract) ==
    IF get_admin(st.auth) # {} THEN Result("AlreadyInitialized", st)
    ELSE IF min_provider_stake <= 0 THEN Result("InvalidInput", st)
    ELSE LET a1 == initialize_admin(st.auth, admin)
             r2 == register_trusted_contract(a1, admin, claims_contract)
         IN IF r2.res # "Ok" THEN Result(r2.res, [st EXCEPT !.auth = a1])
            ELSE Result("Ok", [st EXCEPT !.auth = r2.a,
                                         !.config = <<xlm_token, min_provider_stake>>,
                                         !.stats = <<0, 0, 0, 0>>])

\* Variant of deposit_liquidity without the minimum-stake test.
deposit_liquidity_any_stake(st, provider, amount, now, build) ==
    IF is_paused(st) THEN Result("Paused", st)
    ELSE IF validate_amount(amount) # "Ok" THEN Result("InvalidAmount", st)
    ELSE IF st.config = <<>> THEN Result("NotInitialized", st)
    ELSE IF st.stats = <<>> THEN Result("NotFound", st)
    ELSE LET provider_info == IF provider \in DOMAIN st.provider
                              THEN st.provider[provider] ELSE <<0, 0, now>>
             p0 == checked_add(provider_info[1], amount)
             p1 == checked_add(provider_info[2], amount)
             s0 == checked_add(st.stats[1], amount)
             s2 == checked_add(st.stats[3], amount)
         IN IF p0 = <<>> \/ p1 = <<>> \/ s0 = <<>> \/ s2 = <<>>
            THEN Result("Overflow", st)
            ELSE LET st2 == [st EXCEPT
                              !.provider = Put(st.provider, provider,
                                               <<p0[1], p1[1], provider_info[3]>>),
                              !.stats = <<s0[1], st.stats[2], s2[1], st.stats[4]>>]
                 IN Result(check_liquidity_invariant(st2), st2)

\* `build` is the build's treatment of the unchecked `provider_info.1 + amount`
\* when it leaves the i128 range: "panic" (overflow-checks on) or "wrap".
deposit_liquidity(st, provider, amount, now, build) ==
    IF is_paused(st) THEN Result("Paused", st)
    ELSE IF validate_amount(amount) # "Ok" THEN Result("InvalidAmount", st)
    ELSE IF st.config = <<>> THEN Result("NotInitialized", st)
    ELSE LET provider_info == IF provider \in DOMAIN st.provider
                              THEN st.provider[provider] ELSE <<0, 0, now>>
             sum == provider_info[2] + amount
         IN IF ~InRange(sum) /\ build = "panic" THEN Result("Panic", st)
            ELSE IF Wrap(sum) < st.config[2] THEN Result("InvalidInput", st)
            ELSE IF st.stats = <<>> THEN Result("NotFound", st)
            ELSE LET p0 == checked_add(provider_info[1], amount)
                     p1 == checked_add(provider_info[2], amount)
                     s0 == checked_add(st.stats[1], amount)
                     s2 == checked_add(st.stats[3], amount)
                 IN IF p0 = <<>> \/ p1 = <<>> \/ s0 = <<>> \/ s2 = <<>>
                    THEN Result("Overflow", st)
                    ELSE LET st2 == [st EXCEPT
                                      !.provider = Put(st.provider, provider,
                                                       <<p0[1], p1[1], provider_info[3]>>),
                                      !.stats = <<s0[1], st.stats[2], s2[1], st.stats[4]>>]
                         IN Result(check_liquidity_invariant(st2), st2)

\* Variants of reserve_liquidity with one of its guards or writes left out.
\* Neither the availability test nor the trailing invariant re-check:
reserve_liquidity_unchecked(st, caller_contract, claim_id, amount) ==
    IF require_trusted_contract(st.auth, caller_contract) # "Ok"
    THEN Result("NotTrustedContract", st)
    ELSE IF is_paused(st) THEN Result("Paused", st)
    ELSE IF validate_amount(amount) # "Ok" THEN Result("InvalidAmount", st)
    ELSE IF claim_id \in DOMAIN st.reservation THEN Result("AlreadyExists", st)
    ELSE IF st.stats = <<>> THEN Result("NotFound", st)
    ELSE LET new_reserved_total == checked_add(st.reserved_total, amount)
         IN IF new_reserved_total = <<>> THEN Result("Overflow", st)
            ELSE Result("Ok", [st EXCEPT
                                 !.reserved_total = new_reserved_total[1],
                                 !.reservation = Put(st.reservation, claim_id, amount)])

\* The reservation is recorded but RSV_TOT is not updated:
reserve_liquidity_untallied(st, caller_contract, claim_id, amount) ==
    IF require_trusted_contract(st.auth, caller_contract) # "Ok"
    THEN Result("NotTrustedContract", st)
    ELSE IF is_paused(st) THEN Result("Paused", st)
    ELSE IF validate_amount(amount) # "Ok" THEN Result("InvalidAmount", st)
    ELSE IF claim_id \in DOMAIN st.reservation THEN Result("AlreadyExists", st)
    ELSE IF st.stats = <<>> THEN Result("NotFound", st)
    ELSE IF st.stats[1] - st.reserved_total < amount THEN Result("InsufficientFunds", st)
    ELSE LET st2 == [st EXCEPT !.reservation = Put(st.reservation, claim_id, amount)]
         IN Result(check_liquidity_invariant(st2), st2)

\* A reservation already on record for claim_id does not stop the call:
reserve_liquidity_repeatable(st, caller_contract, claim_id, amount) ==
    IF require_trusted_contract(st.auth, caller_contract) # "Ok"
    THEN Result("NotTrustedContract", st)
    ELSE IF is_paused(st) THEN Result("Paused", st)
    ELSE IF validate_amount(amount) # "Ok" THEN Result("InvalidAmount", st)
    ELSE IF st.stats = <<>> THEN Result("NotFound", st)
    ELSE IF st.stats[1] - st.reserved_total < amount THEN Result("InsufficientFunds", st)
    ELSE LET new_reserved_total == checked_add(st.reserved_total, amount)
         IN IF new_reserved_total = <<>> THEN Result("Overflow", st)
            ELSE LET st2 == [st EXCEPT
                              !.reserved_total = new_reserved_total[1],
                              !.reservation = Put(st.reservation, claim_id, amount)]
                 IN Result(check_liquidity_invariant(st2), st2)

\* The request is compared with total liquidity instead of available liquidity:
reserve_liquidity_stale(st, caller_contract, claim_id, amount) ==
    IF require_trusted_contract(st.auth, caller_contract) # "Ok"
    THEN Result("NotTrustedContract", st)
    ELSE IF is_paused(st) THEN Result("Paused", st)
    ELSE IF validate_amount(amount) # "Ok" THEN Result("InvalidAmount", st)
    ELSE IF claim_id \in DOMAIN st.reservation THEN Result("AlreadyExists", st)
    ELSE IF st.stats = <<>> THEN Result("NotFound", st)
    ELSE IF st.stats[1] < amount THEN Result("InsufficientFunds", st)
    ELSE LET new_reserved_total == checked_add(st.reserved_total, amount)
         IN IF new_reserved_total = <<>> THEN Result("Overflow", st)
            ELSE LET st2 == [st EXCEPT
                              !.reserved_total = new_reserved_total[1],
                              !.reservation = Put(st.reservation, claim_id, amount)]
                 IN Result(check_liquidity_invariant(st2), st2)

\* Without the validate_amount test:
reserve_liquidity_any_amount(st, caller_contract, claim_id, amount) ==
    IF require_trusted_contract(st.auth, caller_contract) # "Ok"
    THEN Result("NotTrustedContract", st)
    ELSE IF is_paused(st) THEN Result("Paused", st)
    ELSE IF claim_id \in DOMAIN st.reservation THEN Result("AlreadyExists", st)
    ELSE IF st.stats = <<>> THEN Result("NotFound", st)
    ELSE LET reserved_total == st.reserved_total
             available == checked_sub(st.stats[1], reserved_total)
         IN IF available = <<>> THEN Result("Overflow", st)
            ELSE IF available[1] < amount THEN Result("InsufficientFunds", st)
            ELSE LET new_reserved_total == checked_add(reserved_total, amount)
                 IN IF new_reserved_total = <<>> THEN Result("Overflow", st)
                    ELSE LET st2 == [st EXCEPT
                                      !.reserved_total = new_reserved_total[1],
                                      !.reservation = Put(st.reservation, claim_id, amount)]
                         IN Result(check_liquidity_invariant(st2), st2)

reserve_liquidity(st, caller_contract, claim_id, amount) ==
    IF require_trusted_contract(st.auth, caller_contract) # "Ok"
    THEN Result("NotTrustedContract", st)
    ELSE IF is_paused(st) THEN Result("Paused", st)
    ELSE IF validate_amount(amount) # "Ok" THEN Result("InvalidAmount", st)
    ELSE IF claim_id \in DOMAIN st.reservation THEN Result("AlreadyExists", st)
    ELSE IF st.stats = <<>> THEN Result("NotFound", st)
    ELSE LET reserved_total == st.reserved_total
             available == checked_sub(st.stats[1], reserved_total)
         IN IF available = <<>> THEN Result("Overflow", st)
            ELSE IF available[1] < amount THEN Result("InsufficientFunds", st)
            ELSE LET new_reserved_total == checked_add(reserved_total, amount)
                 IN IF new_reserved_total = <<>> THEN Result("Overflow", st)
                    ELSE LET st2 == [st EXCEPT
                                      !.reserved_total = new_reserved_total[1],
                                      !.reservation = Put(st.reservation, claim_id, amount)]
                         IN Result(check_liquidity_invariant(st2), st2)

\* Variant of payout_reserved_claim that does not add the payment to
\* total_paid_out (stats.1):
payout_reserved_claim_unrecorded(st, caller_contract, claim_id, recipient) ==
    IF require_trusted_contract(st.auth, caller_contract) # "Ok"
    THEN Result("NotTrustedContract", st)
    ELSE IF is_paused(st) THEN Result("Paused", st)
    ELSE IF st.stats = <<>> THEN Result("NotFound", st)
    ELSE IF claim_id \notin DOMAIN st.reservation THEN Result("NotFound", st)
    ELSE LET amount == st.reservation[claim_id]
         IN IF amount <= 0 THEN Result("InvalidState", st)
            ELSE IF st.reserved_total < amount THEN Result("InvalidState", st)
            ELSE IF st.stats[1] < amount THEN Result("InsufficientFunds", st)
            ELSE LET st2 == [st EXCEPT
                              !.reserved_total = st.reserved_total - amount,
                              !.reservation = Remove(st.reservation, claim_id),
                              !.stats = <<st.stats[1] - amount, st.stats[2],
                                          st.stats[3], st.stats[4]>>]
                 IN Result(check_liquidity_invariant(st2), st2)

\* Variant of payout_reserved_claim that removes the reservation and leaves
\* RSV_TOT as it was:
payout_reserved_claim_untallied(st, caller_contract, claim_id, recipient) ==
    IF require_trusted_contract(st.auth, caller_contract) # "Ok"
    THEN Result("NotTrustedContract", st)
    ELSE IF is_paused(st) THEN Result("Paused", st)
    ELSE IF st.stats = <<>> THEN Result("NotFound", st)
    ELSE IF claim_id \notin DOMAIN st.reservation THEN Result("NotFound", st)
    ELSE LET amount == st.reservation[claim_id]
         IN IF amount <= 0 THEN Result("InvalidState", st)
            ELSE IF st.reserved_total < amount THEN Result("InvalidState", st)
            ELSE IF st.stats[1] < amount THEN Result("InsufficientFunds", st)
            ELSE LET s0 == checked_sub(st.stats[1], amount)
                     s1 == checked_add(st.stats[2], amount)
                 IN IF s0 = <<>> \/ s1 = <<>>
                    THEN Result("Overflow", st)
                    ELSE LET st2 == [st EXCEPT
                                      !.reservation = Remove(st.reservation, claim_id),
                                      !.stats = <<s0[1], s1[1], st.stats[3], st.stats[4]>>]
                         IN Result(check_liquidity_invariant(st2), st2)

payout_reserved_claim(st, caller_contract, claim_id, recipient) ==
    IF require_trusted_contract(st.auth, caller_contract) # "Ok"
    THEN Result("NotTrustedContract", st)
    ELSE IF is_paused(st) THEN Result("Paused", st)
    ELSE IF st.stats = <<>> THEN Result("NotFound", st)
    ELSE IF claim_id \notin DOMAIN st.reservation THEN Result("NotFound", st)
    ELSE LET amount == st.reservation[claim_id]
         IN IF amount <= 0 THEN Result("InvalidState", st)
            ELSE IF st.reserved_total < amount THEN Result("InvalidState", st)
            ELSE IF st.stats[1] < amount THEN Result("InsufficientFunds", st)
            ELSE LET reserved_total == checked_sub(st.reserved_total, amount)
                     s0 == checked_sub(st.stats[1], amount)
                     s1 == checked_add(st.stats[2], amount)
                 IN IF reserved_total = <<>> \/ s0 = <<>> \/ s1 = <<>>
                    THEN Result("Overflow", st)
                    ELSE LET st2 == [st EXCEPT
                                      !.reserved_total = reserved_total[1],
                                      !.reservation = Remove(st.reservation, claim_id),
                                      !.stats = <<s0[1], s1[1], st.stats[3], st.stats[4]>>]
                         IN Result(check_liquidity_invariant(st2), st2)

\* Variant of payout_claim that compares the amount with total liquidity and
\* does not re-check the liquidity invariant.
payout_claim_from_total(st, manager, recipient, amount) ==
    IF require_risk_pool_management(st.auth, manager) # "Ok"
    THEN Result("Unauthorized", st)
    ELSE IF is_paused(st) THEN Result("Paused", st)
    ELSE IF validate_amount(amount) # "Ok" THEN Result("InvalidAmount", st)
    ELSE IF st.stats = <<>> THEN Result("NotFound", st)
    ELSE IF st.stats[1] < amount THEN Result("InsufficientFunds", st)
    ELSE LET s1 == checked_add(st.stats[2], amount)
         IN IF s1 = <<>> THEN Result("Overflow", st)
            ELSE Result("Ok", [st EXCEPT !.stats = <<st.stats[1] - amount, s1[1],
                                                     st.stats[3], st.stats[4]>>])

\* Variant of payout_claim that takes the amount out of total liquidity without
\* adding it to total_paid_out.
payout_claim_untallied(st, manager, recipient, amount) ==
    IF require_risk_pool_management(st.auth, manager) # "Ok"
    THEN Result("Unauthorized", st)
    ELSE IF is_paused(st) THEN Result("Paused", st)
    ELSE IF validate_amount(amount) # "Ok" THEN Result("InvalidAmount", st)
    ELSE IF st.stats = <<>> THEN Result("NotFound", st)
    ELSE LET available == checked_sub(st.stats[1], st.reserved_total)
         IN IF available = <<>> THEN Result("Overflow", st)
            ELSE IF available[1] < amount THEN Result("InsufficientFunds", st)
            ELSE LET s0 == checked_sub(st.stats[1], amount)
                 IN IF s0 = <<>> THEN Result("Overflow", st)
                    ELSE LET st2 == [st EXCEPT
                                      !.stats = <<s0[1], st.stats[2], st.stats[3], st.stats[4]>>]
                         IN Result(check_liquidity_invariant(st2), st2)

payout_claim(st, manager, recipient, amount) ==
    IF require_risk_pool_management(st.auth, manager) # "Ok"
    THEN Result("Unauthorized", st)
    ELSE IF is_paused(st) THEN Result("Paused", st)
    ELSE IF validate_amount(amount) # "Ok" THEN Result("InvalidAmount", st)
    ELSE IF st.stats = <<>> THEN Result("NotFound", st)
    ELSE LET available == checked_sub(st.stats[1], st.reserved_total)
         IN IF available = <<>> THEN Result("Overflow", st)
            ELSE IF available[1] < amount THEN Result("InsufficientFunds", st)
            ELSE LET s0 == checked_sub(st.stats[1], amount)
                     s1 == checked_add(st.stats[2], amount)
                 IN IF s0 = <<>> \/ s1 = <<>> THEN Result("Overflow", st)
                    ELSE LET st2 == [st EXCEPT
                                      !.stats = <<s0[1], s1[1], st.stats[3], st.stats[4]>>]
                         IN Result(check_liquidity_invariant(st2), st2)

get_pool_stats(st) ==
    IF st.stats = <<>> THEN [res |-> "NotFound", val |-> <<>>]
    ELSE [res |-> "Ok", val |-> st.stats]

get_provider_info(st, provider) ==
    IF provider \notin DOMAIN st.provider THEN [res |-> "NotFound", val |-> <<>>]
    ELSE [res |-> "Ok", val |-> st.provider[provider]]

pool_pause(st, admin) ==
    IF require_admin(st.auth, admin) # "Ok" THEN Result("Unauthorized", st)
    ELSE Result("Ok", set_paused(st, TRUE))

pool_unpause(st, admin) ==
    IF require_admin(st.auth, admin) # "Ok" THEN Result("Unauthorized", st)
    ELSE Result("Ok", set_paused(st, FALSE))

grant_manager_role(st, admin, manager) ==
    IF require_admin(st.auth, admin) # "Ok" THEN Result("Unauthorized", st)
    ELSE LET r == grant_role(st.auth, admin, manager, "RiskPoolManager")
         IN Result(r.res, [st EXCEPT !.auth = r.a])

revoke_manager_role(st, admin, manager) ==
    IF require_admin(st.auth, admin) # "Ok" THEN Result("Unauthorized", st)
    ELSE LET r == revoke_role(st.auth, admin, manager)
         IN Result(r.res, [st EXCEPT !.auth = r.a])

\* ---------------------------------------------------------------- policy contract (collaborator)
\* Policies on record in the policy contract: policy_id -> <<holder, coverage>>
\* (fields .0 and .1 of the tuple get_policy returns).  Issuance is not modelled.
PolicyStore == (1 :> <<"user", 2>>) @@ (2 :> <<"proc", 2>>)
PolicyIds == {1, 2, 3}

get_policy(policy_id) ==
    IF policy_id \in DOMAIN PolicyStore THEN <<PolicyStore[policy_id]>> ELSE <<>>

\* ---------------------------------------------------------------- claims contract
\* Persistent storage of ClaimsContract.  claim[id] is the stored tuple
\* <<policy_id, claimant, amount, status, time>>; oracle_cfg is <<>> or
\* <<OracleValidationConfig>>; clm_ora[id] is the oracle data id kept for audit.
ClaimsEmpty ==
    [auth |-> AuthEmpty, paused |-> FALSE, config |-> <<>>, oracle_cfg |-> <<>>,
     claim |-> <<>>, policy_claim |-> <<>>, clm_ora |-> <<>>]

\* Result of a top-level invocation over both contracts' storage.
Result2(res, c, p) == [res |-> res, c |-> c, p |-> p]

\* Variant of the transition table that also admits the shortcut
\* Submitted -> Approved.
is_valid_state_transition_shortcut(current, next) ==
    \/ current = "Submitted" /\ next = "UnderReview"
    \/ current = "Submitted" /\ next = "Approved"
    \/ current = "UnderReview" /\ next = "Approved"
    \/ current = "UnderReview" /\ next = "Rejected"
    \/ current = "Approved" /\ next = "Settled"

\* Variant of the transition table that lets a rejected claim be reviewed again.
is_valid_state_transition_reopen(current, next) ==
    \/ current = "Submitted" /\ next = "UnderReview"
    \/ current = "Rejected" /\ next = "UnderReview"
    \/ current = "UnderReview" /\ next = "Approved"
    \/ current = "UnderReview" /\ next = "Rejected"
    \/ current = "Approved" /\ next = "Settled"

is_valid_state_transition(current, next) ==
    \/ current = "Submitted" /\ next = "UnderReview"
    \/ current = "UnderReview" /\ next = "Approved"
    \/ current = "UnderReview" /\ next = "Rejected"
    \/ current = "Approved" /\ next = "Settled"

SetStatus(claim, status) == <<claim[1], claim[2], claim[3], status, claim[5]>>

claims_initialize(c, admin, policy_contract, risk_pool) ==
    IF get_admin(c.auth) # {} THEN Result("AlreadyInitialized", c)
    ELSE LET a1 == initialize_admin(c.auth, admin)
             r2 == register_trusted_contract(a1, admin, policy_contract)
         IN IF r2.res # "Ok" THEN Result(r2.res, [c EXCEPT !.auth = a1])
            ELSE LET r3 == register_trusted_contract(r2.a, admin, risk_pool)
                 IN IF r3.res # "Ok" THEN Result(r3.res, [c EXCEPT !.auth = r2.a])
                    ELSE Result("Ok", [c EXCEPT !.auth = r3.a,
                                                !.config = <<policy_contract, risk_pool>>])

set_oracle_config(c, admin, oracle_contract, require_oracle_validation, min_oracle_submissions) ==
    IF require_admin(c.auth, admin) # "Ok" THEN Result("Unauthorized", c)
    ELSE LET r == register_trusted_contract(c.auth, admin, oracle_contract)
         IN IF r.res # "Ok" THEN Result(r.res, c)
            ELSE Result("Ok",
                   [c EXCEPT !.auth = r.a,
                             !.oracle_cfg =
                                <<[oracle_contract |-> oracle_contract,
                                   require_oracle_validation |-> require_oracle_validation,
                                   min_oracle_submissions |-> min_oracle_submissions]>>])

\* What the oracle contract answers about one oracle_data_id:
\* get_submission_count traps (count = <<>>) or returns a count, and
\* resolve_oracle_data returns consensus data or traps.
OracleReplies == [count : {<<>>, <<0>>, <<1>>}, resolves : BOOLEAN]

validate_claim_with_oracle(c, claim_id, oracle_data_id, oracle) ==
    IF c.oracle_cfg = <<>> THEN Result("NotFound", c)
    ELSE LET oracle_config == c.oracle_cfg[1]
         IN IF ~oracle_config.require_oracle_validation THEN Result("Ok", c)
            ELSE IF require_trusted_contract(c.auth, oracle_config.oracle_contract) # "Ok"
            THEN Result("NotTrustedContract", c)
            ELSE IF oracle.count = <<>> THEN Result("Panic", c)
            ELSE IF oracle.count[1] < oracle_config.min_oracle_submissions
            THEN Result("InsufficientOracleSubmissions", c)
            ELSE IF ~oracle.resolves THEN Result("Panic", c)
            ELSE Result("Ok", [c EXCEPT !.clm_ora = Put(c.clm_ora, claim_id, oracle_data_id)])

\* Variant of submit_claim without the duplicate test on (P_CLAIM, policy_id).
submit_claim_unindexed(c, claimant, policy_id, amount, sequence, current_time) ==
    IF is_paused(c) THEN Result("Paused", c)
    ELSE IF c.config = <<>> THEN Result("NotInitialized", c)
    ELSE IF c.config[1] # PolicyAddr \/ get_policy(policy_id) = <<>>
    THEN Result("Panic", c)
    ELSE LET policy == get_policy(policy_id)[1]
             claim_id == sequence + 1
         IN IF policy[1] # claimant THEN Result("Unauthorized", c)
            ELSE IF amount <= 0 \/ amount > policy[2] THEN Result("InvalidInput", c)
            ELSE Result("Ok",
                   [c EXCEPT !.claim = Put(c.claim, claim_id,
                                           <<policy_id, claimant, amount,
                                             "Submitted", current_time>>),
                             !.policy_claim = Put(c.policy_claim, policy_id, claim_id)])

\* The claim id is the ledger sequence number plus one.
submit_claim(c, claimant, policy_id, amount, sequence, current_time) ==
    IF is_paused(c) THEN Result("Paused", c)
    ELSE IF c.config = <<>> THEN Result("NotInitialized", c)
    ELSE IF c.config[1] # PolicyAddr \/ get_policy(policy_id) = <<>>
    THEN Result("Panic", c)
    ELSE LET policy == get_policy(policy_id)[1]
             claim_id == sequence + 1
         IN IF policy[1] # claimant THEN Result("Unauthorized", c)
            ELSE IF policy_id \in DOMAIN c.policy_claim THEN Result("AlreadyExists", c)
            ELSE IF amount <= 0 \/ amount > policy[2] THEN Result("InvalidInput", c)
            ELSE Result("Ok",
                   [c EXCEPT !.claim = Put(c.claim, claim_id,
                                           <<policy_id, claimant, amount,
                                             "Submitted", current_time>>),
                             !.policy_claim = Put(c.policy_claim, policy_id, claim_id)])

start_review(c, processor, claim_id) ==
    IF require_claim_processing(c.auth, processor) # "Ok" THEN Result("Unauthorized", c)
    ELSE IF claim_id \notin DOMAIN c.claim THEN Result("NotFound", c)
    ELSE LET claim == c.claim[claim_id]
         IN IF ~is_valid_state_transition(claim[4], "UnderReview")
            THEN Result("InvalidClaimState", c)
            ELSE Result("Ok", [c EXCEPT !.claim = Put(c.claim, claim_id,
                                                      SetStatus(claim, "UnderReview"))])

\* Variant of reject_claim that also frees the policy for a new claim by
\* removing its (P_CLAIM, policy_id) entry.
reject_claim_releasing(c, processor, claim_id) ==
    IF require_claim_processing(c.auth, processor) # "Ok" THEN Result("Unauthorized", c)
    ELSE IF claim_id \notin DOMAIN c.claim THEN Result("NotFound", c)
    ELSE LET claim == c.claim[claim_id]
         IN IF ~is_valid_state_transition(claim[4], "Rejected")
            THEN Result("InvalidClaimState", c)
            ELSE Result("Ok", [c EXCEPT !.claim = Put(c.claim, claim_id,
                                                      SetStatus(claim, "Rejected")),
                                        !.policy_claim = Remove(c.policy_claim, claim[1])])

reject_claim(c, processor, claim_id) ==
    IF require_claim_processing(c.auth, processor) # "Ok" THEN Result("Unauthorized", c)
    ELSE IF claim_id \notin DOMAIN c.claim THEN Result("NotFound", c)
    ELSE LET claim == c.claim[claim_id]
         IN IF ~is_valid_state_transition(claim[4], "Rejected")
            THEN Result("InvalidClaimState", c)
            ELSE Result("Ok", [c EXCEPT !.claim = Put(c.claim, claim_id,
                                                      SetStatus(claim, "Rejected"))])

\* env.invoke_contract of the pool's entry points from the claims contract: the
\* callee runs in its own frame, whose writes are kept only if it returns Ok.
\* The argument tuples in the source omit the pool's leading caller_contract
\* parameter; the invoking contract's own address is passed for it, the only
\* address whose require_auth a contract-to-contract call satisfies.
invoke_reserve_liquidity(p, risk_pool_contract, claim_id, amount) ==
    IF risk_pool_contract # PoolAddr THEN Result("Panic", p)
    ELSE LET r == reserve_liquidity(p, ClaimsAddr, claim_id, amount)
         IN IF r.res = "Ok" THEN r ELSE Result(r.res, p)

invoke_payout_reserved_claim(p, risk_pool_contract, claim_id, recipient) ==
    IF risk_pool_contract # PoolAddr THEN Result("Panic", p)
    ELSE LET r == payout_reserved_claim(p, ClaimsAddr, claim_id, recipient)
         IN IF r.res = "Ok" THEN r ELSE Result(r.res, p)

\* Variant of approve_claim that writes Approved whatever the pool's
\* reserve_liquidity returned.
approve_claim_regardless(c, p, processor, claim_id, oracle_data_id, oracle_answers) ==
    IF require_claim_processing(c.auth, processor) # "Ok"
    THEN Result2("Unauthorized", c, p)
    ELSE IF claim_id \notin DOMAIN c.claim THEN Result2("NotFound", c, p)
    ELSE LET claim == c.claim[claim_id]
         IN IF ~is_valid_state_transition(claim[4], "Approved")
            THEN Result2("InvalidClaimState", c, p)
            ELSE IF claim[3] <= 0 THEN Result2("InvalidAmount", c, p)
            ELSE IF c.config = <<>> THEN Result2("NotInitialized", c, p)
            ELSE LET r == invoke_reserve_liquidity(p, c.config[2], claim_id, claim[3])
                 IN Result2("Ok",
                            [c EXCEPT !.claim = Put(c.claim, claim_id,
                                                    SetStatus(claim, "Approved"))],
                            r.st)

\* oracle_data_id is <<>> (None) or <<id>>; oracle_answers tells whether the
\* oracle contract's get_submission_count returns for that id or traps.
approve_claim(c, p, processor, claim_id, oracle_data_id, oracle_answers) ==
    IF require_claim_processing(c.auth, processor) # "Ok"
    THEN Result2("Unauthorized", c, p)
    ELSE IF claim_id \notin DOMAIN c.claim THEN Result2("NotFound", c, p)
    ELSE LET claim == c.claim[claim_id]
             required == c.oracle_cfg # <<>> /\ c.oracle_cfg[1].require_oracle_validation
         IN IF ~is_valid_state_transition(claim[4], "Approved")
            THEN Result2("InvalidClaimState", c, p)
            ELSE IF claim[3] <= 0 THEN Result2("InvalidAmount", c, p)
            ELSE IF required /\ oracle_data_id = <<>>
            THEN Result2("OracleValidationFailed", c, p)
            ELSE IF required
                    /\ require_trusted_contract(c.auth, c.oracle_cfg[1].oracle_contract) # "Ok"
            THEN Result2("NotTrustedContract", c, p)
            ELSE IF required /\ ~oracle_answers THEN Result2("Panic", c, p)
            ELSE LET c1 == IF required
                           THEN [c EXCEPT !.clm_ora = Put(c.clm_ora, claim_id,
                                                          oracle_data_id[1])]
                           ELSE c
                 IN IF c1.config = <<>> THEN Result2("NotInitialized", c1, p)
                    ELSE IF require_trusted_contract(c1.auth, c1.config[2]) # "Ok"
                    THEN Result2("NotTrustedContract", c1, p)
                    ELSE LET r == invoke_reserve_liquidity(p, c1.config[2], claim_id, claim[3])
                         IN IF r.res # "Ok" THEN Result2("Panic", c1, r.st)
                            ELSE Result2("Ok",
                                   [c1 EXCEPT !.claim = Put(c1.claim, claim_id,
                                                            SetStatus(claim, "Approved"))],
                                   r.st)

settle_claim(c, p, processor, claim_id) ==
    IF require_claim_processing(c.auth, processor) # "Ok"
    THEN Result2("Unauthorized", c, p)
    ELSE IF claim_id \notin DOMAIN c.claim THEN Result2("NotFound", c, p)
    ELSE LET claim == c.claim[claim_id]
         IN IF ~is_valid_state_transition(claim[4], "Settled")
            THEN Result2("InvalidClaimState", c, p)
            ELSE IF claim[3] <= 0 THEN Result2("InvalidAmount", c, p)
            ELSE IF c.config = <<>> THEN Result2("NotInitialized", c, p)
            ELSE IF require_trusted_contract(c.auth, c.config[2]) # "Ok"
            THEN Result2("NotTrustedContract", c, p)
            ELSE LET r == invoke_payout_reserved_claim(p, c.config[2], claim_id, claim[2])
                 IN IF r.res # "Ok" THEN Result2("Panic", c, r.st)
                    ELSE Result2("Ok",
                           [c EXCEPT !.claim = Put(c.claim, claim_id,
                                                   SetStatus(claim, "Settled"))],
                           r.st)

claims_pause(c, admin) ==
    IF require_admin(c.auth, admin) # "Ok" THEN Result("Unauthorized", c)
    ELSE Result("Ok", set_paused(c, TRUE))

claims_unpause(c, admin) ==
    IF require_admin(c.auth, admin) # "Ok" THEN Result("Unauthorized", c)
    ELSE Result("Ok", set_paused(c, FALSE))

grant_processor_role(c, admin, processor) ==
    IF require_admin(c.auth, admin) # "Ok" THEN Result("Unauthorized", c)
    ELSE LET r == grant_role(c.auth, admin, processor, "ClaimProcessor")
         IN Result(r.res, [c EXCEPT !.auth = r.a])

revoke_processor_role(c, admin, processor) ==
    IF require_admin(c.auth, admin) # "Ok" THEN Result("Unauthorized", c)
    ELSE LET r == revoke_role(c.auth, admin, processor)
         IN Result(r.res, [c EXCEPT !.auth = r.a])

\* ---------------------------------------------------------------- oracle contract
\* The consensus resolver behind get_submission_count / resolve_oracle_data.
\* Persistent storage: the configuration, per data request the submissions in
\* order of arrival, each <<source, value, timestamp>>, and the resolution
\* record once one has been computed.
OracleEmpty == [config |-> <<>>, submission |-> <<>>, resolution |-> <<>>]

Abs(v) == IF v < 0 THEN 0 - v ELSE v

SubmissionsOf(o, data_id) ==
    IF data_id \in DOMAIN o.submission THEN o.submission[data_id] ELSE <<>>

ValuesOf(submissions) == [i \in 1..Len(submissions) |-> submissions[i][2]]

\* The values in ascending order: the head put in its place among the sorted
\* rest.
RECURSIVE sort_values(_)
sort_values(values) ==
    IF values = <<>> THEN <<>>
    ELSE LET sorted == sort_values(Tail(values))
             v == Head(values)
             k == Cardinality({i \in 1..Len(sorted) : sorted[i] <= v})
         IN SubSeq(sorted, 1, k) \o <<v>> \o SubSeq(sorted, k + 1, Len(sorted))

\* Variant of median that takes the middle of the values as they arrived:
median_unsorted(values) ==
    LET n == Len(values)
    IN IF n % 2 = 1 THEN values[(n + 1) \div 2]
       ELSE (values[n \div 2] + values[n \div 2 + 1]) \div 2

\* The middle value of a non-empty sequence, the mean of the two middle values
\* when their number is even.
median(values) ==
    LET sorted == sort_values(values)
        n == Len(sorted)
    IN IF n % 2 = 1 THEN sorted[(n + 1) \div 2]
       ELSE (sorted[n \div 2] + sorted[n \div 2 + 1]) \div 2

\* Variant of within_deviation that accepts every value:
within_deviation_any(value, reference, outlier_deviation) == TRUE

\* value lies within outlier_deviation percent of reference.
within_deviation(value, reference, outlier_deviation) ==
    Abs(value - reference) * 100 <= Abs(reference) * outlier_deviation

oracle_initialize(o, min_submissions, majority_threshold, outlier_deviation, staleness) ==
    IF o.config # <<>> THEN Result("AlreadyInitialized", o)
    ELSE Result("Ok", [o EXCEPT !.config = [min_submissions |-> min_submissions,
                                            majority_threshold |-> majority_threshold,
                                            outlier_deviation |-> outlier_deviation,
                                            staleness |-> staleness]])

\* Variant of submit_oracle_data in which a source's later submission replaces
\* its earlier one:
submit_oracle_data_replacing(o, source, data_id, value, now) ==
    IF o.config = <<>> THEN Result("NotInitialized", o)
    ELSE LET submissions == SubmissionsOf(o, data_id)
             others == SelectSeq(submissions, LAMBDA sub : sub[1] # source)
         IN Result("Ok", [o EXCEPT !.submission =
                             Put(o.submission, data_id, Append(others, <<source, value, now>>))])

submit_oracle_data(o, source, data_id, value, now) ==
    IF o.config = <<>> THEN Result("NotInitialized", o)
    ELSE LET submissions == SubmissionsOf(o, data_id)
         IN IF \E i \in 1..Len(submissions) : submissions[i][1] = source
            THEN Result("DuplicateSubmission", o)
            ELSE Result("Ok", [o EXCEPT !.submission =
                                  Put(o.submission, data_id,
                                      Append(submissions, <<source, value, now>>))])

\* Steps 2 to 6 of the resolution of `submissions` at time now: [res, data].
resolve(submissions, config, now) ==
    LET fresh == SelectSeq(submissions, LAMBDA sub : now - sub[3] <= config.staleness)
    IN IF Len(fresh) < config.min_submissions
       THEN [res |-> IF Len(fresh) < Len(submissions)
                     THEN "StaleData" ELSE "InsufficientSubmissions",
             data |-> <<>>]
       ELSE LET reference == median(ValuesOf(fresh))
                accepted == SelectSeq(fresh, LAMBDA sub :
                                within_deviation(sub[2], reference, config.outlier_deviation))
            IN IF Len(accepted) * 100 < config.majority_threshold * Len(fresh)
               THEN [res |-> "ConsensusNotReached", data |-> <<>>]
               ELSE [res |-> "Ok",
                     data |-> [consensus_value |-> median(ValuesOf(accepted)),
                               submission_count |-> Len(fresh),
                               accepted_count |-> Len(accepted),
                               rejected_count |-> Len(fresh) - Len(accepted),
                               finalized_at |-> now]]

\* The resolution of a data request is computed once and kept.
resolve_oracle_data(o, data_id, now) ==
    IF o.config = <<>> THEN Result("NotInitialized", o)
    ELSE IF data_id \in DOMAIN o.resolution THEN Result("Ok", o)
    ELSE LET r == resolve(SubmissionsOf(o, data_id), o.config, now)
         IN IF r.res # "Ok" THEN Result(r.res, o)
            ELSE Result("Ok", [o EXCEPT !.resolution = Put(o.resolution, data_id, r.data)])

\* ---------------------------------------------------------------- claims contract, dispute revision
\* Instance storage of the revision of ClaimsContract that holds raise_dispute:
\* claim records under their id, each [id, claimant, status, decision_ts,
\* dispute_window_end] with the two Option fields <<>> when None, the
\* DAO_MEMBERS list (<<>> while the key is absent), and the disputes under
\* ("DISPUTE", claim_id).  published counts the events the contract has sent
\* to the host.
DisputeEmpty == [claim |-> <<>>, dao_members |-> <<>>, dispute |-> <<>>, published |-> 0]

DisputeStatuses == {"Submitted", "Approved", "Rejected", "PendingSettlement", "Disputed", "Settled"}

\* Variant of raise_dispute that does not compare the time with the window end:
raise_dispute_any_time(d, claim_id, raised_by, reason, now) ==
    IF claim_id \notin DOMAIN d.claim THEN Result("Panic", d)
    ELSE IF d.claim[claim_id].status # "PendingSettlement" THEN Result("Panic", d)
    ELSE IF d.claim[claim_id].dispute_window_end = <<>> THEN Result("Panic", d)
    ELSE IF d.dao_members = <<>> THEN Result("Panic", d)
    ELSE IF raised_by \notin d.dao_members[1] THEN Result("Panic", d)
    ELSE Result("Ok",
           [d EXCEPT !.claim[claim_id].status = "Disputed",
                     !.dispute = Put(d.dispute, claim_id,
                                     [claim_id |-> claim_id, raised_by |-> raised_by,
                                      reason |-> reason, resolved |-> FALSE])])

\* Every refusal is a panic (unwrap of a missing value or panic!), which the
\* host turns into a failed invocation; the function publishes no event.
raise_dispute(d, claim_id, raised_by, reason, now) ==
    IF claim_id \notin DOMAIN d.claim THEN Result("Panic", d)
    ELSE IF d.claim[claim_id].status # "PendingSettlement" THEN Result("Panic", d)
    ELSE IF d.claim[claim_id].dispute_window_end = <<>> THEN Result("Panic", d)
    ELSE IF now > d.claim[claim_id].dispute_window_end[1] THEN Result("Panic", d)
    ELSE IF d.dao_members = <<>> THEN Result("Panic", d)
    ELSE IF raised_by \notin d.dao_members[1] THEN Result("Panic", d)
    ELSE Result("Ok",
           [d EXCEPT !.claim[claim_id].status = "Disputed",
                     !.dispute = Put(d.dispute, claim_id,
                                     [claim_id |-> claim_id, raised_by |-> raised_by,
                                      reason |-> reason, resolved |-> FALSE])])

\* ---------------------------------------------------------------- claims contract, record revision
\* Persistent storage of the revision of ClaimsContract that keeps Claim
\* records: the ClaimsData record under "data" and the value under the key
\* format_claim_key returns, each <<>> while absent.
\* Persistent storage of the contract: a map from storage keys to values, with
\* nothing stored before initialize.
RecordsEmpty == <<>>

format_claim_key(claim_id) == "clm"

record_initialize(storage, admin, policy_contract, risk_pool) ==
    Result("Ok", Put(storage, "data",
                     [next_claim_id |-> 1, total_claimed |-> 0, total_settled |-> 0,
                      admin |-> admin, policy_contract |-> policy_contract,
                      risk_pool |-> risk_pool]))

\* `invoker` is the address env.invoker() yields; description and evidence are
\* stored as given and read by no entry point, and are left out.  `build` is
\* the build's treatment of the unchecked `total_claimed += claim_amount`.
record_submit_claim(storage, invoker, policy_id, claim_amount, now, build) ==
    IF "data" \notin DOMAIN storage THEN [res |-> "Panic", st |-> storage, val |-> 0]
    ELSE LET data == storage["data"]
             claim_id == data.next_claim_id
             claim == [id |-> claim_id, policy_id |-> policy_id, claimant |-> invoker,
                       claim_amount |-> claim_amount, status |-> "Pending",
                       created_at |-> now, settled_at |-> 0]
             total_claimed == data.total_claimed + claim_amount
         IN IF ~InRange(total_claimed) /\ build = "panic"
            THEN [res |-> "Panic", st |-> storage, val |-> 0]
            ELSE [res |-> "Ok",
                  st |-> Put(Put(storage, format_claim_key(claim_id), claim), "data",
                             [data EXCEPT !.next_claim_id = claim_id + 1,
                                          !.total_claimed = Wrap(total_claimed)]),
                  val |-> claim_id]

record_get_claim(storage, claim_id) ==
    IF format_claim_key(claim_id) \notin DOMAIN storage
    THEN [res |-> "Panic", val |-> <<>>]
    ELSE [res |-> "Ok", val |-> storage[format_claim_key(claim_id)]]

\* approve_claim and reject_claim differ only in the status they write.
record_decide_claim(storage, caller, claim_id, status) ==
    IF "data" \notin DOMAIN storage THEN Result("Panic", storage)
    ELSE IF caller # storage["data"].admin THEN Result("Panic", storage)
    ELSE IF format_claim_key(claim_id) \notin DOMAIN storage THEN Result("Panic", storage)
    ELSE LET claim == storage[format_claim_key(claim_id)]
         IN IF claim.status # "Pending" THEN Result("Panic", storage)
            ELSE Result("Ok", Put(storage, format_claim_key(claim_id),
                                  [claim EXCEPT !.status = status]))

record_approve_claim(storage, caller, claim_id) ==
    record_decide_claim(storage, caller, claim_id, "Approved")

record_reject_claim(storage, caller, claim_id) ==
    record_decide_claim(storage, caller, claim_id, "Rejected")

record_settle_claim(storage, caller, claim_id, now, build) ==
    IF "data" \notin DOMAIN storage THEN Result("Panic", storage)
    ELSE IF caller # storage["data"].admin THEN Result("Panic", storage)
    ELSE IF format_claim_key(claim_id) \notin DOMAIN storage THEN Result("Panic", storage)
    ELSE LET data == storage["data"]
             claim == storage[format_claim_key(claim_id)]
             total_settled == data.total_settled + claim.claim_amount
         IN IF claim.status # "Approved" THEN Result("Panic", storage)
            ELSE IF ~InRange(total_settled) /\ build = "panic" THEN Result("Panic", storage)
            ELSE Result("Ok",
                        Put(Put(storage, format_claim_key(claim_id),
                                [claim EXCEPT !.status = "Settled", !.settled_at = now]),
                            "data", [data EXCEPT !.total_settled = Wrap(total_settled)]))

\* ---------------------------------------------------------------- state
VARIABLES
    claims_st,      \* storage of the claims contract
    pool_st,        \* storage of the risk pool contract
    oracle_st,      \* storage of the oracle contract
    dispute_st,     \* storage of the claims contract, dispute revision
    records_st,     \* storage of the claims contract, record revision
    ledger,         \* env.ledger().sequence(); the timestamp advances with it
    last,           \* the last top-level invocation: [op, res]
    hist,           \* per stored claim: <<op, status>> steps since its submission;
                    \* record revision: per returned id, <<policy_id, claim_amount>>
    reserved_ids,   \* claim ids for which a reserve_liquidity call has succeeded
    paid_ids        \* claim ids for which a payout_reserved_claim call has succeeded

vars == <<claims_st, pool_st, oracle_st, dispute_st, records_st, ledger, last, hist, reserved_ids,
          paid_ids>>

ClaimIds == 1..(MaxLedger + 1)
\* Identities offered as the target of a role grant or revocation.
RoleTargets == {"proc"}
\* Providers offered to deposit_liquidity.
Providers == {"user", "admin"}
\* Minimum provider stake offered to the pool's initialize.
MinStake == 2
OracleDataIds == {1}
Builds == {"panic", "wrap"}

timestamp(sequence) == sequence

\* A host that keeps the writes of an invocation whatever it returned.
HostCommit_NoRollback(r, c, p) == r

\* The host keeps the writes of a top-level invocation only if it returned Ok.
HostCommit(r, c, p) == IF r.res = "Ok" THEN r ELSE Result2(r.res, c, p)

OnClaims(r) == HostCommit(Result2(r.res, r.st, pool_st), claims_st, pool_st)
OnPool(r) == HostCommit(Result2(r.res, claims_st, r.st), claims_st, pool_st)
OnBoth(r) == HostCommit(r, claims_st, pool_st)

NextHist(op, c2) ==
    [id \in DOMAIN c2.claim |->
        IF id \notin DOMAIN claims_st.claim
           \/ (op = "submit_claim" /\ c2.claim[id] # claims_st.claim[id])
        THEN << <<op, c2.claim[id][4]>> >>
        ELSE IF c2.claim[id][4] # claims_st.claim[id][4]
        THEN Append(hist[id], <<op, c2.claim[id][4]>>)
        ELSE hist[id]]

\* Claim ids whose reservation the step to pool storage p2 creates / consumes.
NewlyReserved(p2) == (DOMAIN p2.reservation) \ (DOMAIN pool_st.reservation)
NewlyPaid(p2) == (DOMAIN pool_st.reservation) \ (DOMAIN p2.reservation)

\* One committed top-level invocation `op` with committed result r.
Step(op, r) ==
    /\ claims_st' = r.c
    /\ pool_st' = r.p
    /\ last' = [op |-> op, res |-> r.res]
    /\ hist' = NextHist(op, r.c)
    /\ reserved_ids' = reserved_ids \cup NewlyReserved(r.p)
    /\ paid_ids' = paid_ids \cup NewlyPaid(r.p)
    /\ UNCHANGED <<oracle_st, dispute_st, records_st, ledger>>

Init ==
    /\ claims_st = ClaimsEmpty
    /\ pool_st = PoolEmpty
    /\ oracle_st = OracleEmpty
    /\ dispute_st = DisputeEmpty
    /\ records_st = RecordsEmpty
    /\ ledger = 0
    /\ last = [op |-> "none", res |-> "Ok"]
    /\ hist = <<>>
    /\ reserved_ids = {}
    /\ paid_ids = {}

\* ---------------------------------------------------------------- actions
AdvanceLedger ==
    /\ ledger < MaxLedger
    /\ ledger' = ledger + 1
    /\ UNCHANGED <<claims_st, pool_st, oracle_st, dispute_st, records_st, last, hist,
                   reserved_ids, paid_ids>>

PoolInitialize(claims_contract) ==
    \E min_provider_stake \in {0, MinStake} :
        Step("pool_initialize",
             OnPool(pool_initialize(pool_st, "admin", TokenAddr, min_provider_stake,
                                    claims_contract)))

DepositLiquidity(providers, amounts) ==
    \E provider \in providers, amount \in amounts, build \in Builds :
        Step("deposit_liquidity",
             OnPool(deposit_liquidity(pool_st, provider, amount, timestamp(ledger), build)))

ReserveLiquidity(amounts) ==
    \E caller \in Accounts, claim_id \in ClaimIds, amount \in amounts :
        Step("reserve_liquidity", OnPool(reserve_liquidity(pool_st, caller, claim_id, amount)))

PayoutReservedClaim ==
    \E caller \in Accounts, claim_id \in ClaimIds :
        Step("payout_reserved_claim",
             OnPool(payout_reserved_claim(pool_st, caller, claim_id, "user")))

PayoutClaim(amounts) ==
    \E manager \in Accounts, amount \in amounts :
        Step("payout_claim", OnPool(payout_claim(pool_st, manager, "user", amount)))

PoolPause ==
    \E admin \in Accounts : Step("pool_pause", OnPool(pool_pause(pool_st, admin)))

PoolUnpause ==
    \E admin \in Accounts : Step("pool_unpause", OnPool(pool_unpause(pool_st, admin)))

GrantManagerRole ==
    \E admin \in Accounts, manager \in RoleTargets :
        Step("grant_manager_role", OnPool(grant_manager_role(pool_st, admin, manager)))

RevokeManagerRole ==
    \E admin \in Accounts, manager \in RoleTargets :
        Step("revoke_manager_role", OnPool(revoke_manager_role(pool_st, admin, manager)))

ClaimsInitialize ==
    Step("claims_initialize",
         OnClaims(claims_initialize(claims_st, "admin", PolicyAddr, PoolAddr)))

SetOracleConfig(requirements) ==
    \E admin \in Accounts, require_oracle_validation \in requirements :
        Step("set_oracle_config",
             OnClaims(set_oracle_config(claims_st, admin, OracleAddr,
                                        require_oracle_validation, 1)))

SubmitClaim(policies, amounts) ==
    \E claimant \in Accounts, policy_id \in policies, amount \in amounts :
        Step("submit_claim",
             OnClaims(submit_claim(claims_st, claimant, policy_id, amount, ledger,
                                   timestamp(ledger))))

StartReview ==
    \E processor \in Accounts, claim_id \in ClaimIds :
        Step("start_review", OnClaims(start_review(claims_st, processor, claim_id)))

ApproveClaim(oracle_refs, answers) ==
    \E processor \in Accounts, claim_id \in ClaimIds,
       oracle_data_id \in oracle_refs, oracle_answers \in answers :
        Step("approve_claim",
             OnBoth(approve_claim(claims_st, pool_st, processor, claim_id,
                                  oracle_data_id, oracle_answers)))

RejectClaim ==
    \E processor \in Accounts, claim_id \in ClaimIds :
        Step("reject_claim", OnClaims(reject_claim(claims_st, processor, claim_id)))

SettleClaim ==
    \E processor \in Accounts, claim_id \in ClaimIds :
        Step("settle_claim", OnBoth(settle_claim(claims_st, pool_st, processor, claim_id)))

ClaimsPause ==
    \E admin \in Accounts : Step("claims_pause", OnClaims(claims_pause(claims_st, admin)))

ClaimsUnpause ==
    \E admin \in Accounts : Step("claims_unpause", OnClaims(claims_unpause(claims_st, admin)))

GrantProcessorRole ==
    \E admin \in Accounts, processor \in RoleTargets :
        Step("grant_processor_role",
             OnClaims(grant_processor_role(claims_st, admin, processor)))

RevokeProcessorRole ==
    \E admin \in Accounts, processor \in RoleTargets :
        Step("revoke_processor_role",
             OnClaims(revoke_processor_role(claims_st, admin, processor)))

\* ---------------------------------------------------------------- specifications
\* Spec: the claim lifecycle of the deployed system.  The pool trusts the claims
\* contract, one provider funds the pool, claims for every policy are filed in
\* any ledger, and no oracle validation is configured.
PoolInitializeForClaims == PoolInitialize(ClaimsAddr)
FundPool == DepositLiquidity({"user"}, {0, MaxI128 - 1})
SubmitAnyClaim == SubmitClaim(PolicyIds, Amounts)
ApproveUnvalidated == ApproveClaim({<<>>}, {TRUE})

Next ==
    \/ AdvanceLedger
    \/ ClaimsInitialize
    \/ PoolInitializeForClaims
    \/ SubmitAnyClaim
    \/ StartReview
    \/ ApproveUnvalidated
    \/ RejectClaim
    \/ SettleClaim
    \/ FundPool

Spec == Init /\ [][Next]_vars

\* SpecPool: the risk pool alone, every entry point driven directly, with an
\* operator account registered as its trusted caller.
PoolInitializeForOperator == PoolInitialize("proc")
DepositAny == DepositLiquidity(Providers, Amounts)
ReserveAny == ReserveLiquidity(Amounts)
PayoutAny == PayoutClaim(Amounts)

NextPool ==
    \/ PoolInitializeForOperator
    \/ DepositAny
    \/ ReserveAny
    \/ PayoutReservedClaim
    \/ PayoutAny
    \/ PoolPause
    \/ PoolUnpause

SpecPool == Init /\ [][NextPool]_vars

\* SpecFull: every entry point of both contracts within one ledger, with claims
\* filed for policy 1 only (policy 3 does not exist).
SubmitOneClaim == SubmitClaim({1, 3}, {0, 1})
ApproveValidated == ApproveClaim({<<>>} \cup {<<i>> : i \in OracleDataIds}, BOOLEAN)
PayoutSome == PayoutClaim({0, 2})
ReserveSome == ReserveLiquidity({2})
RequireOracle == SetOracleConfig({TRUE})

NextFull ==
    \/ ClaimsInitialize
    \/ PoolInitializeForClaims
    \/ RequireOracle
    \/ SubmitOneClaim
    \/ StartReview
    \/ ApproveValidated
    \/ RejectClaim
    \/ SettleClaim
    \/ ClaimsPause
    \/ ClaimsUnpause
    \/ GrantProcessorRole
    \/ RevokeProcessorRole
    \/ FundPool
    \/ ReserveSome
    \/ PayoutReservedClaim
    \/ PayoutSome
    \/ PoolPause
    \/ PoolUnpause
    \/ GrantManagerRole
    \/ RevokeManagerRole

SpecFull == Init /\ [][NextFull]_vars

\* ---------------------------------------------------------------- properties
PoolReady == pool_st.stats # <<>>
Reserved == DOMAIN pool_st.reservation
TrustedCallers == {a \in Addresses : is_trusted_contract(pool_st.auth, a)}

\* C1: after any sequence of deposit_liquidity, reserve_liquidity,
\* payout_reserved_claim and payout_claim calls, successful or failed,
\* total_liquidity >= reserved_total in every committed state of the pool.
C1_LiquidityPreserved ==
    PoolReady => pool_st.stats[1] >= pool_st.reserved_total

\* A committed state after deposits, reservations and both kinds of payout in
\* which every unit of liquidity is earmarked and the last call was refused.
C1_Witness ==
    /\ PoolReady
    /\ pool_st.reserved_total > 0
    /\ pool_st.stats[1] = pool_st.reserved_total
    /\ pool_st.stats[2] > 0
    /\ paid_ids # {}
    /\ last.op = "payout_claim" /\ last.res = "InsufficientFunds"

\* C2: every outstanding reservation can be paid: its amount r satisfies
\* reserved_total >= r and total_liquidity >= r, so payout_reserved_claim by a
\* trusted caller on an unpaused pool fails neither with InvalidState nor with
\* InsufficientFunds.
C2_ReservationsPayable ==
    \A claim_id \in Reserved :
        /\ pool_st.reserved_total >= pool_st.reservation[claim_id]
        /\ PoolReady /\ pool_st.stats[1] >= pool_st.reservation[claim_id]
        /\ \A caller \in TrustedCallers :
              ~is_paused(pool_st) =>
                 payout_reserved_claim(pool_st, caller, claim_id, "user").res
                    \notin {"InvalidState", "InsufficientFunds"}

\* A reservation has just been paid out while another one is still outstanding.
C2_Witness ==
    /\ last.op = "payout_reserved_claim" /\ last.res = "Ok"
    /\ Reserved # {}
    /\ ~is_paused(pool_st)

Claims == DOMAIN claims_st.claim
StatusOf(claim_id) == claims_st.claim[claim_id][4]
AmountOf(claim_id) == claims_st.claim[claim_id][3]
Processors == {a \in Accounts : require_claim_processing(claims_st.auth, a) = "Ok"}

\* C3: a claim is Settled only via Submitted, UnderReview, Approved, Settled:
\* the status history of a Settled claim is exactly that sequence, the steps
\* made by start_review, approve_claim and settle_claim in that order.
C3_SettledOnlyByFullPath ==
    \A claim_id \in Claims :
        StatusOf(claim_id) = "Settled" =>
            hist[claim_id] = << <<"submit_claim", "Submitted">>,
                                <<"start_review", "UnderReview">>,
                                <<"approve_claim", "Approved">>,
                                <<"settle_claim", "Settled">> >>

\* settle_claim has just settled a claim.
C3_Witness ==
    /\ last.op = "settle_claim" /\ last.res = "Ok"
    /\ \E claim_id \in Claims : StatusOf(claim_id) = "Settled"

\* The four status-changing operations, the status each requires, and the
\* committed outcome of one attempt in the current state.
TransitionOps == {"start_review", "approve_claim", "reject_claim", "settle_claim"}

RequiredSource(op) ==
    CASE op = "start_review" -> "Submitted"
      [] op = "approve_claim" -> "UnderReview"
      [] op = "reject_claim" -> "UnderReview"
      [] op = "settle_claim" -> "Approved"

Attempt(op, processor, claim_id) ==
    CASE op = "start_review" -> OnClaims(start_review(claims_st, processor, claim_id))
      [] op = "approve_claim" ->
            OnBoth(approve_claim(claims_st, pool_st, processor, claim_id, <<>>, TRUE))
      [] op = "reject_claim" -> OnClaims(reject_claim(claims_st, processor, claim_id))
      [] op = "settle_claim" -> OnBoth(settle_claim(claims_st, pool_st, processor, claim_id))

RefusedWith(error) ==
    \A op \in TransitionOps, processor \in Processors, claim_id \in Claims :
        StatusOf(claim_id) # RequiredSource(op) =>
            LET r == Attempt(op, processor, claim_id)
            IN /\ r.res = error
               /\ r.c.claim[claim_id][4] = StatusOf(claim_id)

C5_TerminalStatusesStay ==
    [][\A claim_id \in Claims :
          StatusOf(claim_id) \in {"Settled", "Rejected"} =>
              claims_st'.claim[claim_id][4] = StatusOf(claim_id)]_vars

\* The outcome of a further reserve_liquidity call, by a trusted caller on an
\* unpaused pool, for a claim id that already has a reservation.
SecondReserve(on_non_positive) ==
    ~is_paused(pool_st) =>
        \A caller \in TrustedCallers, claim_id \in Reserved, amount \in Amounts :
            LET r == OnPool(reserve_liquidity(pool_st, caller, claim_id, amount))
            IN /\ r.res = IF amount > 0 THEN "AlreadyExists" ELSE on_non_positive
               /\ r.p.reserved_total = pool_st.reserved_total
               /\ r.p.reservation = pool_st.reservation

\* C6 as stated: while a reservation exists for a claim id, a second
\* reserve_liquidity call for that id fails with AlreadyExists and changes
\* neither reserved_total nor the recorded reservation, whatever amount it
\* requests.
C6_SecondReserveAlreadyExists == SecondReserve("AlreadyExists")

\* C6 as amended: such a call fails with AlreadyExists when the requested
\* amount is positive and with InvalidAmount when it is zero or negative; in
\* both cases reserved_total and the recorded reservations are unchanged.
C6_SecondReserveRefused == SecondReserve("InvalidAmount")

\* A second reserve_liquidity has just been refused with AlreadyExists.
C6_Witness ==
    /\ last.op = "reserve_liquidity" /\ last.res = "AlreadyExists"
    /\ Reserved # {}
    /\ pool_st.stats[1] > pool_st.reserved_total

\* C7: for each claim id a reservation is created exactly once and consumed
\* exactly once: reserve_liquidity succeeds at most once for the id,
\* payout_reserved_claim succeeds at most once for it, and the payout comes
\* only after the reservation.
C7_ReservedOnceConsumedOnce ==
    [][/\ NewlyReserved(pool_st') \cap reserved_ids = {}
       /\ NewlyPaid(pool_st') \cap paid_ids = {}
       /\ NewlyPaid(pool_st') \subseteq reserved_ids]_vars

\* C8: two reservations cannot jointly overdraw the pool: when two
\* reserve_liquidity calls for different claim ids each fit the available
\* liquidity but their sum exceeds it, then in either order the first succeeds
\* and the second fails with InsufficientFunds, leaving the pool as the first
\* left it.
C8_NoJointOverdraw ==
    (PoolReady /\ ~is_paused(pool_st)) =>
        LET available == pool_st.stats[1] - pool_st.reserved_total
        IN \A caller \in TrustedCallers, id1, id2 \in ClaimIds \ Reserved,
              a1, a2 \in Amounts :
               (/\ id1 # id2
                /\ 0 < a1 /\ a1 <= available
                /\ 0 < a2 /\ a2 <= available
                /\ a1 + a2 > available) =>
                   LET r1 == reserve_liquidity(pool_st, caller, id1, a1)
                       r2 == reserve_liquidity(r1.st, caller, id2, a2)
                   IN /\ r1.res = "Ok"
                      /\ r1.st.reservation[id1] = a1
                      /\ r2.res = "InsufficientFunds"
                      /\ r2.st = r1.st
                      /\ r1.st.stats[1] >= r1.st.reserved_total

\* With one reservation on record and the pool's total large enough for any
\* request, a reserve_liquidity has just failed for lack of available funds.
C8_Witness ==
    /\ last.op = "reserve_liquidity" /\ last.res = "InsufficientFunds"
    /\ Cardinality(Reserved) = 1
    /\ paid_ids = {}
    /\ pool_st.stats[1] = MaxI128

\* C9: settling an Approved claim pays out exactly the amount reserved for it,
\* which equals the claim's amount: the successful settle_claim removes the
\* claim's reservation, decreases total_liquidity and reserved_total each by
\* that amount and increases total_paid_out by the same amount.
C9_SettlePaysReservedAmount ==
    [][\A claim_id \in Claims :
          (/\ last'.op = "settle_claim" /\ last'.res = "Ok"
           /\ StatusOf(claim_id) = "Approved"
           /\ claims_st'.claim[claim_id][4] = "Settled") =>
              /\ claim_id \in Reserved
              /\ pool_st.reservation[claim_id] = AmountOf(claim_id)
              /\ claim_id \notin DOMAIN pool_st'.reservation
              /\ DOMAIN pool_st'.reservation = Reserved \ {claim_id}
              /\ pool_st'.stats[1] = pool_st.stats[1] - AmountOf(claim_id)
              /\ pool_st'.reserved_total = pool_st.reserved_total - AmountOf(claim_id)
              /\ pool_st'.stats[2] = pool_st.stats[2] + AmountOf(claim_id)]_vars

\* settle_claim has just paid a claim out of a pool that had more liquidity
\* than the reservation.
C9_Witness ==
    /\ last.op = "settle_claim" /\ last.res = "Ok"
    /\ \E claim_id \in Claims :
          /\ StatusOf(claim_id) = "Settled"
          /\ claim_id \in paid_ids
          /\ pool_st.stats[2] = AmountOf(claim_id)
    /\ pool_st.stats[1] > 0

OracleRefs == {<<>>} \cup {<<i>> : i \in OracleDataIds}

\* The pool as it is, and as it would be after its admin paused it.
PoolVariants == {pool_st, set_paused(pool_st, TRUE)}

\* C11: approve_claim sets a claim to Approved only if the pool's
\* reserve_liquidity for that claim id and the claim's amount succeeded in the
\* same operation; if the reservation fails the claim stays UnderReview and
\* no reservation is recorded.
C11_ApprovedOnlyWithReservation ==
    \A processor \in Accounts, claim_id \in Claims, oracle_data_id \in OracleRefs,
       oracle_answers \in BOOLEAN, p \in PoolVariants :
        StatusOf(claim_id) = "UnderReview" =>
            LET r == HostCommit(approve_claim(claims_st, p, processor, claim_id,
                                              oracle_data_id, oracle_answers),
                                claims_st, p)
                rsv == reserve_liquidity(p, ClaimsAddr, claim_id, AmountOf(claim_id))
            IN /\ r.c.claim[claim_id][4] \in {"UnderReview", "Approved"}
               /\ r.c.claim[claim_id][4] = "Approved" =>
                     /\ rsv.res = "Ok"
                     /\ r.p = rsv.st
                     /\ r.p.reservation[claim_id] = AmountOf(claim_id)
               /\ rsv.res # "Ok" =>
                     /\ r.res # "Ok"
                     /\ r.c = claims_st
                     /\ r.p = p

\* approve_claim has just failed on a claim under review whose id already
\* has a reservation in a pool with liquidity to spare.
C11_Witness ==
    /\ last.op = "approve_claim" /\ last.res = "Panic"
    /\ \E claim_id \in Claims :
          /\ StatusOf(claim_id) = "UnderReview"
          /\ claim_id \in Reserved
          /\ pool_st.stats[1] - pool_st.reserved_total >= AmountOf(claim_id)

OracleRequired ==
    claims_st.oracle_cfg # <<>> /\ claims_st.oracle_cfg[1].require_oracle_validation

\* The reference is one the oracle has resolved: validate_claim_with_oracle
\* accepts it given the oracle's answers.
ResolvedReference(claim_id, oracle_data_id, oracle) ==
    /\ oracle_data_id # <<>>
    /\ validate_claim_with_oracle(claims_st, claim_id, oracle_data_id[1], oracle).res = "Ok"

\* C12: when oracle validation is mandatory, approve_claim succeeds only if it
\* is given an oracle reference that the oracle has resolved, and it records
\* that reference for the claim; given no such reference it fails with
\* OracleValidationFailed, the claim stays UnderReview and no liquidity is
\* reserved.
C12_ApprovalNeedsResolvedReference ==
    OracleRequired =>
        \A processor \in Processors, claim_id \in Claims,
           oracle_data_id \in OracleRefs, oracle \in OracleReplies :
            StatusOf(claim_id) = "UnderReview" =>
                LET r == OnBoth(approve_claim(claims_st, pool_st, processor, claim_id,
                                              oracle_data_id, oracle.count # <<>>))
                IN /\ r.res = "Ok" =>
                        /\ ResolvedReference(claim_id, oracle_data_id, oracle)
                        /\ claim_id \in DOMAIN r.c.clm_ora
                        /\ r.c.clm_ora[claim_id] = oracle_data_id[1]
                   /\ ~ResolvedReference(claim_id, oracle_data_id, oracle) =>
                        /\ r.res = "OracleValidationFailed"
                        /\ r.c.claim[claim_id][4] = "UnderReview"
                        /\ r.p = pool_st

\* C13: reject_claim has no ledger side effect: a successful reject_claim
\* changes only the status of the one claim, from UnderReview to Rejected, and
\* leaves the pool (stats, reserved_total, reservations, provider stakes) and
\* every other claim unchanged.
C13_RejectChangesOnlyStatus ==
    [][(ledger' = ledger /\ last'.op = "reject_claim" /\ last'.res = "Ok") =>
          /\ pool_st' = pool_st
          /\ \E claim_id \in Claims :
                /\ StatusOf(claim_id) = "UnderReview"
                /\ claims_st' = [claims_st EXCEPT !.claim[claim_id][4] = "Rejected"]]_vars

\* reject_claim has just rejected a claim while the pool holds a reservation
\* for another claim.
C13_Witness ==
    /\ last.op = "reject_claim" /\ last.res = "Ok"
    /\ \E claim_id \in Claims : StatusOf(claim_id) = "Rejected" /\ claim_id \notin Reserved
    /\ Reserved # {}
    /\ pool_st.reserved_total > 0

Roles == {"Admin", "Governance", "RiskPoolManager", "PolicyManager", "ClaimProcessor", "User"}

\* The committed outcome of one status-changing call on storage c and pool p.
AttemptOn(c, p, op, processor, claim_id) ==
    CASE op = "start_review" ->
            HostCommit(Result2(start_review(c, processor, claim_id).res,
                               start_review(c, processor, claim_id).st, p), c, p)
      [] op = "approve_claim" ->
            HostCommit(approve_claim(c, p, processor, claim_id, <<>>, TRUE), c, p)
      [] op = "reject_claim" ->
            HostCommit(Result2(reject_claim(c, processor, claim_id).res,
                               reject_claim(c, processor, claim_id).st, p), c, p)
      [] op = "settle_claim" -> HostCommit(settle_claim(c, p, processor, claim_id), c, p)

RefusedUnauthorized(c, caller) ==
    \A op \in TransitionOps, claim_id \in ClaimIds :
        LET r == AttemptOn(c, pool_st, op, caller, claim_id)
        IN r.res = "Unauthorized" /\ r.c = c /\ r.p = pool_st

\* C14: start_review, approve_claim, reject_claim and settle_claim change a
\* claim's status only when the caller's current role is Admin or
\* ClaimProcessor; a caller holding any other role gets Unauthorized and
\* changes nothing, and this includes a former processor from the moment its
\* role has been revoked.
C14_OnlyProcessorsChangeStatus ==
    /\ \A role \in Roles :
          can_process_claims(role) <=> role \in {"Admin", "ClaimProcessor"}
    /\ \A caller \in Accounts :
          get_role(claims_st.auth, caller) \notin {"Admin", "ClaimProcessor"} =>
              RefusedUnauthorized(claims_st, caller)
    /\ \A admin \in Accounts, processor \in Accounts :
          LET revoked == revoke_processor_role(claims_st, admin, processor)
          IN revoked.res = "Ok" => RefusedUnauthorized(revoked.st, processor)

\* A caller without permission has just been refused while a claim is under
\* review and another identity holds ClaimProcessor, which the admin can revoke.
C14_Witness ==
    /\ last.op = "approve_claim" /\ last.res = "Unauthorized"
    /\ \E claim_id \in Claims : StatusOf(claim_id) = "UnderReview"
    /\ \E processor \in Accounts :
          /\ get_role(claims_st.auth, processor) = "ClaimProcessor"
          /\ \E admin \in Accounts :
                revoke_processor_role(claims_st, admin, processor).res = "Ok"

ClaimsReady == claims_st.config # <<>>
Holder(policy_id) == get_policy(policy_id)[1][1]
Coverage(policy_id) == get_policy(policy_id)[1][2]
Claimed(policy_id) == policy_id \in DOMAIN claims_st.policy_claim

C16_ClaimIdsUnique ==
    [][(ledger' = ledger /\ last'.op = "submit_claim" /\ last'.res = "Ok") =>
          /\ (DOMAIN claims_st'.claim) \ Claims # {}
          /\ \A claim_id \in Claims : claims_st'.claim[claim_id] = claims_st.claim[claim_id]]_vars

\* C17: once a claim is created its policy_id, claimant and amount never
\* change and its record is never deleted, whatever operations follow.
C17_ClaimRecordImmutable ==
    [][\A claim_id \in Claims :
          /\ claim_id \in DOMAIN claims_st'.claim
          /\ claims_st'.claim[claim_id][1] = claims_st.claim[claim_id][1]
          /\ claims_st'.claim[claim_id][2] = claims_st.claim[claim_id][2]
          /\ claims_st'.claim[claim_id][3] = claims_st.claim[claim_id][3]]_vars

\* C18: while the claims contract is paused, submit_claim, start_review,
\* approve_claim, reject_claim and settle_claim each fail with Paused and
\* change no claim.
C18_PausedClaimsRefuseAll ==
    is_paused(claims_st) =>
        /\ \A policy_id \in DOMAIN PolicyStore, amount \in Amounts :
              LET r == OnClaims(submit_claim(claims_st, Holder(policy_id), policy_id,
                                             amount, ledger, timestamp(ledger)))
              IN r.res = "Paused" /\ r.c = claims_st
        /\ \A op \in TransitionOps, processor \in Processors, claim_id \in Claims :
              LET r == Attempt(op, processor, claim_id)
              IN r.res = "Paused" /\ r.c.claim = claims_st.claim

Managers == {a \in Accounts : require_risk_pool_management(pool_st.auth, a) = "Ok"}

\* Outcome r of a mutating pool call on the paused pool: it failed, with Paused
\* when the caller passed the authorization test, and the pool is as before.
RefusedWhilePaused(r, authorized) ==
    /\ r.res # "Ok"
    /\ authorized => r.res = "Paused"
    /\ r.p = pool_st

\* C19: while the risk pool is paused, deposit_liquidity, reserve_liquidity,
\* payout_reserved_claim and payout_claim each fail and leave pool stats,
\* reserved_total, reservations and provider stakes unchanged; only an
\* identity holding Admin can pause or unpause; get_pool_stats and
\* get_provider_info stay available while paused.
C19_PausedPoolRefusesMutations ==
    /\ pool_st.paused =>
          \A caller \in Accounts, claim_id \in ClaimIds, amount \in Amounts :
              /\ \A build \in Builds :
                    RefusedWhilePaused(OnPool(deposit_liquidity(pool_st, caller, amount,
                                                                timestamp(ledger), build)),
                                       TRUE)
              /\ RefusedWhilePaused(OnPool(reserve_liquidity(pool_st, caller, claim_id, amount)),
                                    caller \in TrustedCallers)
              /\ RefusedWhilePaused(OnPool(payout_reserved_claim(pool_st, caller, claim_id,
                                                                 "user")),
                                    caller \in TrustedCallers)
              /\ RefusedWhilePaused(OnPool(payout_claim(pool_st, caller, "user", amount)),
                                    caller \in Managers)
              /\ get_pool_stats(pool_st) = [res |-> "Ok", val |-> pool_st.stats]
              /\ caller \in DOMAIN pool_st.provider =>
                    get_provider_info(pool_st, caller)
                        = [res |-> "Ok", val |-> pool_st.provider[caller]]
    /\ \A caller \in Accounts :
          get_role(pool_st.auth, caller) # "Admin" =>
              /\ OnPool(pool_pause(pool_st, caller)).res = "Unauthorized"
              /\ OnPool(pool_pause(pool_st, caller)).p = pool_st
              /\ OnPool(pool_unpause(pool_st, caller)).res = "Unauthorized"
              /\ OnPool(pool_unpause(pool_st, caller)).p = pool_st

\* On a paused pool that holds a stake, available liquidity and a
\* reservation, a deposit has just been refused with Paused.
C19_Witness ==
    /\ last.op = "deposit_liquidity" /\ last.res = "Paused"
    /\ is_paused(pool_st)
    /\ Reserved # {}
    /\ pool_st.stats[1] > pool_st.reserved_total
    /\ "user" \in DOMAIN pool_st.provider

\* The provider's record, as deposit_liquidity reads it.
ProviderInfo(provider) ==
    IF provider \in DOMAIN pool_st.provider
    THEN pool_st.provider[provider] ELSE <<0, 0, timestamp(ledger)>>

\* Every counter a deposit of amount by provider increases stays in i128.
DepositFits(provider, amount) ==
    /\ InRange(ProviderInfo(provider)[1] + amount)
    /\ InRange(ProviderInfo(provider)[2] + amount)
    /\ InRange(pool_st.stats[1] + amount)
    /\ InRange(pool_st.stats[3] + amount)

\* deposit_liquidity on the unpaused, initialized pool succeeds exactly when
\* amount > 0, the stake after the deposit reaches the minimum and, if
\* within_range_only, the deposit fits; success adds amount to the provider's
\* stake and to total_liquidity, failure changes nothing.
DepositSucceedsExactlyWhen(within_range_only) ==
    (PoolReady /\ ~pool_st.paused) =>
        \A provider \in Accounts, amount \in Amounts, build \in Builds :
            LET r == OnPool(deposit_liquidity(pool_st, provider, amount,
                                              timestamp(ledger), build))
                stake == ProviderInfo(provider)[2]
                accepted == /\ amount > 0
                            /\ stake + amount >= pool_st.config[2]
                            /\ within_range_only => DepositFits(provider, amount)
            IN /\ r.res = "Ok" <=> accepted
               /\ r.res = "Ok" =>
                     /\ r.p.provider[provider][2] = stake + amount
                     /\ r.p.stats[1] = pool_st.stats[1] + amount
                     /\ r.p.reserved_total = pool_st.reserved_total
                     /\ r.p.reservation = pool_st.reservation
               /\ r.res # "Ok" => r.p = pool_st

\* C20 as stated: deposit_liquidity(provider, amount) on an unpaused,
\* initialized pool succeeds exactly when amount > 0 and the provider's stake
\* after the deposit is at least the configured minimum; on success the stake
\* and total_liquidity each increase by exactly amount, on failure nothing
\* changes.
C20_DepositExactlyWhenStakeSuffices == DepositSucceedsExactlyWhen(FALSE)

\* C20 as amended: the same, with the further condition for success that no
\* counter the deposit increases (the provider's two totals, total_liquidity
\* and the pool's cumulative deposits) would leave the i128 range.
C20_DepositExactlyWhenStakeSufficesAndFits == DepositSucceedsExactlyWhen(TRUE)

\* A deposit has just been refused although a smaller provider could make
\* it: the depositor's stake is at the i128 maximum while payouts have
\* lowered total_liquidity below it.
C20_Witness ==
    /\ last.op = "deposit_liquidity" /\ last.res \in {"Panic", "InvalidInput"}
    /\ ~pool_st.paused
    /\ "user" \in DOMAIN pool_st.provider
    /\ pool_st.provider["user"][2] = MaxI128
    /\ pool_st.stats[1] < MaxI128

\* C21: the direct payout path never consumes reserved liquidity:
\* payout_claim succeeds only for a caller whose role is RiskPoolManager or
\* Admin and only when amount > 0 and amount <= total_liquidity -
\* reserved_total; on success total_liquidity decreases and total_paid_out
\* increases by amount while reserved_total and every reservation are
\* unchanged.
C21_DirectPayoutSparesReserved ==
    /\ \A role \in Roles :
          can_manage_risk_pool(role) <=> role \in {"Admin", "RiskPoolManager"}
    /\ \A manager \in Accounts, amount \in Amounts :
          LET r == OnPool(payout_claim(pool_st, manager, "user", amount))
          IN r.res = "Ok" =>
                /\ get_role(pool_st.auth, manager) \in {"Admin", "RiskPoolManager"}
                /\ amount > 0
                /\ amount <= pool_st.stats[1] - pool_st.reserved_total
                /\ r.p.stats[1] = pool_st.stats[1] - amount
                /\ r.p.stats[2] = pool_st.stats[2] + amount
                /\ r.p.reserved_total = pool_st.reserved_total
                /\ r.p.reservation = pool_st.reservation
                /\ r.p.stats[1] >= r.p.reserved_total

\* A direct payout has just succeeded on a pool that holds a reservation,
\* while an identity other than the admin holds RiskPoolManager.
C21_Witness ==
    /\ last.op = "payout_claim" /\ last.res = "Ok"
    /\ Reserved # {}
    /\ pool_st.reserved_total > 0
    /\ \E manager \in Accounts : get_role(pool_st.auth, manager) = "RiskPoolManager"

\* The pool as the trusted caller sees it: a reservation or a reserved payout
\* requested by caller_contract, applied to pool storage p.
TrustedCall(p, op, caller_contract, claim_id, amount) ==
    IF op = "reserve_liquidity"
    THEN HostCommit(Result2(reserve_liquidity(p, caller_contract, claim_id, amount).res,
                            claims_st,
                            reserve_liquidity(p, caller_contract, claim_id, amount).st),
                    claims_st, p)
    ELSE HostCommit(Result2(payout_reserved_claim(p, caller_contract, claim_id, "user").res,
                            claims_st,
                            payout_reserved_claim(p, caller_contract, claim_id, "user").st),
                    claims_st, p)

\* C22: reserve_liquidity and payout_reserved_claim alter the pool only when
\* the calling identity is on the trusted-contract allowlist at the time of
\* the call; a call by any other identity fails and changes nothing, and a
\* caller that has been unregistered by the admin is refused until the admin
\* registers it again, after which its calls have their former outcome.
C22_OnlyTrustedCallersMoveReserves ==
    \A op \in {"reserve_liquidity", "payout_reserved_claim"}, caller \in Addresses,
       claim_id \in ClaimIds, amount \in Amounts :
        LET r == TrustedCall(pool_st, op, caller, claim_id, amount)
        IN /\ caller \notin pool_st.auth.trusted => r.res # "Ok" /\ r.p = pool_st
           /\ r.p # pool_st => caller \in pool_st.auth.trusted
           /\ \A admin \in Accounts :
                 LET u == unregister_trusted_contract(pool_st.auth, admin, caller)
                     unregistered == [pool_st EXCEPT !.auth = u.a]
                     g == register_trusted_contract(u.a, admin, caller)
                     registered == [pool_st EXCEPT !.auth = g.a]
                     r1 == TrustedCall(unregistered, op, caller, claim_id, amount)
                     r2 == TrustedCall(registered, op, caller, claim_id, amount)
                 IN (caller \in pool_st.auth.trusted /\ u.res = "Ok") =>
                       /\ caller \notin u.a.trusted
                       /\ r1.res = "NotTrustedContract" /\ r1.p = unregistered
                       /\ g.res = "Ok"
                       /\ r2.res = r.res
                       /\ r.res = "Ok" =>
                             /\ r2.p.reservation = r.p.reservation
                             /\ r2.p.reserved_total = r.p.reserved_total
                             /\ r2.p.stats = r.p.stats

\* An identity off the allowlist has just been refused a reservation on a pool
\* that holds free liquidity and a reservation it could otherwise have paid.
C22_Witness ==
    /\ last.op = "reserve_liquidity" /\ last.res = "NotTrustedContract"
    /\ pool_st.auth.trusted # {}
    /\ Reserved # {}
    /\ pool_st.stats[1] > pool_st.reserved_total

\* C23: no arithmetic on a money field wraps or aborts: in deposit_liquidity,
\* reserve_liquidity, payout_reserved_claim and payout_claim no call aborts,
\* and a deposit whose stake sum (the one compared with the minimum stake)
\* leaves the signed 128-bit range fails with Overflow and leaves the state
\* unchanged.
C23_OverflowReported ==
    (PoolReady /\ ~pool_st.paused) =>
        \A provider \in Providers, amount \in Amounts, build \in Builds :
            LET r == OnPool(deposit_liquidity(pool_st, provider, amount,
                                              timestamp(ledger), build))
            IN /\ r.res # "Panic"
               /\ (amount > 0 /\ ~InRange(ProviderInfo(provider)[2] + amount)) =>
                     r.res = "Overflow" /\ r.p = pool_st

\* ---------------------------------------------------------------- authorization library
\* SpecAuth: the authorization library on the pool's storage, its role and
\* allowlist functions driven directly by every account after the pool's
\* initialize has installed the protocol admin.
AuthStep(op, r) == Step(op, Result2(r.res, claims_st, [pool_st EXCEPT !.auth = r.a]))

GrantRole ==
    \E caller \in Accounts, target \in Accounts, role \in Roles :
        AuthStep("grant_role", grant_role(pool_st.auth, caller, target, role))

RevokeRole ==
    \E caller \in Accounts, target \in Accounts :
        AuthStep("revoke_role", revoke_role(pool_st.auth, caller, target))

RegisterTrustedContract ==
    \E caller \in Accounts, contract_address \in {ClaimsAddr, "proc"} :
        AuthStep("register_trusted_contract",
                 register_trusted_contract(pool_st.auth, caller, contract_address))

UnregisterTrustedContract ==
    \E caller \in Accounts, contract_address \in {ClaimsAddr, "proc"} :
        AuthStep("unregister_trusted_contract",
                 unregister_trusted_contract(pool_st.auth, caller, contract_address))

NextAuth ==
    \/ PoolInitializeForOperator
    \/ GrantRole
    \/ RevokeRole
    \/ RegisterTrustedContract
    \/ UnregisterTrustedContract

SpecAuth == Init /\ [][NextAuth]_vars

RoleOf(identity) == get_role(pool_st.auth, identity)

\* Every Admin-only operation of the library and of the pool, attempted by
\* identity on pool storage p, is refused and changes nothing.
AdminOnlyRefused(p, identity) ==
    /\ require_admin(p.auth, identity) = "Unauthorized"
    /\ \A target \in Accounts, role \in Roles :
          grant_role(p.auth, identity, target, role) = [res |-> "Unauthorized", a |-> p.auth]
    /\ \A target \in Accounts :
          /\ revoke_role(p.auth, identity, target) = [res |-> "Unauthorized", a |-> p.auth]
          /\ grant_manager_role(p, identity, target) = Result("Unauthorized", p)
          /\ revoke_manager_role(p, identity, target) = Result("Unauthorized", p)
    /\ \A contract_address \in Addresses :
          /\ register_trusted_contract(p.auth, identity, contract_address)
                = [res |-> "Unauthorized", a |-> p.auth]
          /\ unregister_trusted_contract(p.auth, identity, contract_address)
                = [res |-> "Unauthorized", a |-> p.auth]
    /\ pool_pause(p, identity) = Result("Unauthorized", p)
    /\ pool_unpause(p, identity) = Result("Unauthorized", p)

\* C24: revoke_role by an Admin on itself fails with Unauthorized and leaves
\* its role Admin; revoke_role by an Admin on another Admin succeeds and
\* resets that identity's role to User, after which require_admin for that
\* identity fails and every Admin-only operation it attempts is rejected.
C24_RevokeDemotesOtherAdminNotSelf ==
    \A caller \in Accounts, target \in Accounts :
        LET r == revoke_role(pool_st.auth, caller, target)
        IN (RoleOf(caller) = "Admin" /\ RoleOf(target) = "Admin") =>
              IF caller = target
              THEN /\ r.res = "Unauthorized"
                   /\ r.a = pool_st.auth
                   /\ get_role(r.a, caller) = "Admin"
              ELSE /\ r.res = "Ok"
                   /\ get_role(r.a, target) = "User"
                   /\ get_role(r.a, caller) = "Admin"
                   /\ AdminOnlyRefused([pool_st EXCEPT !.auth = r.a], target)

\* The protocol admin has been demoted to User by a second Admin it had
\* appointed, and that Admin is the only one left.
C24_Witness ==
    /\ last.op = "revoke_role" /\ last.res = "Ok"
    /\ pool_st.auth.admin = {"admin"}
    /\ "admin" \in DOMAIN pool_st.auth.roles /\ RoleOf("admin") = "User"
    /\ {a \in Accounts : RoleOf(a) = "Admin"} = {"proc"}

AuthOps == {"grant_role", "revoke_role", "register_trusted_contract", "unregister_trusted_contract"}

\* C25: no privilege escalation: a grant_role, revoke_role,
\* register_trusted_contract or unregister_trusted_contract call made by a
\* caller whose current role is not Admin fails with Unauthorized and changes
\* neither the identity-to-role mapping nor the trusted-contract allowlist,
\* so after initialization these two stores change only in a successful call
\* of one of the four made while some identity holds Admin.
C25_OnlyAdminsChangeRolesAndAllowlist ==
    [][ /\ \A caller \in Accounts :
              RoleOf(caller) # "Admin" =>
                 /\ \A target \in Accounts, role \in Roles :
                       grant_role(pool_st.auth, caller, target, role)
                          = [res |-> "Unauthorized", a |-> pool_st.auth]
                 /\ \A target \in Accounts :
                       revoke_role(pool_st.auth, caller, target)
                          = [res |-> "Unauthorized", a |-> pool_st.auth]
                 /\ \A contract_address \in Addresses :
                       /\ register_trusted_contract(pool_st.auth, caller, contract_address)
                             = [res |-> "Unauthorized", a |-> pool_st.auth]
                       /\ unregister_trusted_contract(pool_st.auth, caller, contract_address)
                             = [res |-> "Unauthorized", a |-> pool_st.auth]
        /\ (pool_st'.auth.roles # pool_st.auth.roles
              \/ pool_st'.auth.trusted # pool_st.auth.trusted) =>
                 /\ last'.res = "Ok"
                 /\ \/ last'.op = "pool_initialize" /\ pool_st.auth = AuthEmpty
                    \/ /\ last'.op \in AuthOps
                       /\ \E caller \in Accounts : RoleOf(caller) = "Admin"
      ]_vars

\* A grant has just been refused while one identity holds a role between User
\* and Admin and the allowlist is not empty.
C25_Witness ==
    /\ last.op = "grant_role" /\ last.res = "Unauthorized"
    /\ \E identity \in Accounts : RoleOf(identity) = "RiskPoolManager"
    /\ ClaimsAddr \in pool_st.auth.trusted

\* C26: initialization is one-time: an accepted initialize of the pool or of
\* the claims contract sets the protocol admin and gives that identity the
\* Admin role; once a component has an admin, every initialize call, by any
\* caller with any arguments, fails with AlreadyInitialized and changes
\* neither the admin, the roles, the allowlist, the configuration nor the
\* pool stats.
C26_InitializeOnce ==
    /\ \A admin \in Accounts, min_provider_stake \in Amounts, claims_contract \in Addresses :
          LET r == OnPool(pool_initialize(pool_st, admin, TokenAddr, min_provider_stake,
                                          claims_contract))
          IN IF pool_st.auth.admin # {}
             THEN r.res = "AlreadyInitialized" /\ r.p = pool_st /\ r.c = claims_st
             ELSE r.res = "Ok" =>
                     /\ r.p.auth.admin = {admin}
                     /\ get_role(r.p.auth, admin) = "Admin"
    /\ \A admin \in Accounts, policy_contract \in Addresses, risk_pool \in Addresses :
          LET r == OnClaims(claims_initialize(claims_st, admin, policy_contract, risk_pool))
          IN IF claims_st.auth.admin # {}
             THEN r.res = "AlreadyInitialized" /\ r.c = claims_st /\ r.p = pool_st
             ELSE /\ r.res = "Ok"
                  /\ r.c.auth.admin = {admin}
                  /\ get_role(r.c.auth, admin) = "Admin"

\* A second initialize of the pool has just been refused while the pool holds
\* liquidity, a granted manager role and a reservation.
C26_Witness ==
    /\ last.op = "pool_initialize" /\ last.res = "AlreadyInitialized"
    /\ claims_st.auth.admin # {}
    /\ PoolReady /\ pool_st.stats[1] > 0
    /\ Reserved # {}
    /\ \E manager \in Accounts : get_role(pool_st.auth, manager) = "RiskPoolManager"

\* role is Admin or the one other role that a permission admits.
Permitted(role, other) == role \in {"Admin", other}

\* C27: the permission predicates are a fixed function of the single role an
\* identity holds (User when none was granted): can_manage_policies,
\* can_process_claims, can_manage_risk_pool and can_govern are each true for
\* Admin and for exactly one other role (PolicyManager, ClaimProcessor,
\* RiskPoolManager, Governance respectively) and false for the other four
\* roles, and can_submit_claim is false for ClaimProcessor and true for the
\* other five roles.
C27_PermissionsFollowRole ==
    /\ Cardinality(Roles) = 6
    /\ \A role \in Roles :
          /\ can_manage_policies(role) <=> Permitted(role, "PolicyManager")
          /\ can_process_claims(role) <=> Permitted(role, "ClaimProcessor")
          /\ can_manage_risk_pool(role) <=> Permitted(role, "RiskPoolManager")
          /\ can_govern(role) <=> Permitted(role, "Governance")
          /\ can_submit_claim(role) <=> role # "ClaimProcessor"
    /\ \A identity \in Accounts :
          /\ RoleOf(identity) \in Roles
          /\ identity \notin DOMAIN pool_st.auth.roles => RoleOf(identity) = "User"
          /\ identity \in DOMAIN pool_st.auth.roles =>
                RoleOf(identity) = pool_st.auth.roles[identity]
          /\ require_claim_processing(pool_st.auth, identity) = "Ok"
                <=> Permitted(RoleOf(identity), "ClaimProcessor")
          /\ require_risk_pool_management(pool_st.auth, identity) = "Ok"
                <=> Permitted(RoleOf(identity), "RiskPoolManager")

\* One identity holds ClaimProcessor, one holds Governance, and one was never
\* granted a role.
C27_Witness ==
    /\ \E identity \in Accounts : RoleOf(identity) = "ClaimProcessor"
    /\ \E identity \in Accounts : RoleOf(identity) = "Governance"
    /\ \E identity \in Accounts : identity \notin DOMAIN pool_st.auth.roles

\* ---------------------------------------------------------------- oracle resolver
\* SpecOracle: the oracle contract alone, within one ledger, configured with a
\* minimum of 3 submissions, a majority threshold of 80 or 90 percent, 15
\* percent outlier deviation and a staleness of one time unit.  Five sources
\* submit to one data request in any order, each a value of its own choice, and
\* the request is resolved at any point.
OracleSources == {"o1", "o2", "o3", "o4", "o5"}
Offers ==
    [source \in OracleSources |->
        CASE source = "o1" -> {1000, 100}
          [] source = "o2" -> {1020, 101}
          [] source = "o3" -> {980, 102}
          [] source = "o4" -> {1010}
          [] source = "o5" -> {50}]

OracleStep(op, r) ==
    /\ oracle_st' = r.st
    /\ last' = [op |-> op, res |-> r.res]
    /\ UNCHANGED <<claims_st, pool_st, dispute_st, records_st, ledger, hist, reserved_ids,
                   paid_ids>>

OracleInitialize ==
    \E majority_threshold \in {80, 90} :
        OracleStep("oracle_initialize",
                   oracle_initialize(oracle_st, 3, majority_threshold, 15, 1))

SubmitOracleData ==
    \E source \in OracleSources, data_id \in OracleDataIds :
        \E value \in Offers[source] :
            OracleStep("submit_oracle_data",
                       submit_oracle_data(oracle_st, source, data_id, value, timestamp(ledger)))

ResolveOracleData ==
    \E data_id \in OracleDataIds :
        OracleStep("resolve_oracle_data",
                   resolve_oracle_data(oracle_st, data_id, timestamp(ledger)))

NextOracle ==
    \/ OracleInitialize
    \/ SubmitOracleData
    \/ ResolveOracleData

SpecOracle == Init /\ [][NextOracle]_vars

OracleReady == oracle_st.config # <<>>
Submissions(data_id) == SubmissionsOf(oracle_st, data_id)
Resolve(submissions) == resolve(submissions, oracle_st.config, timestamp(ledger))

\* C28: oracle resolution is order-independent: for the set of (source, value)
\* submissions recorded for a request, every arrival order of those
\* submissions resolves to the same outcome, consensus value and accepted
\* count; 100, 101 and 102 by three sources give 101 with all three accepted
\* in whatever order they arrived.
C28_ResolutionOrderIndependent ==
    OracleReady =>
        \A data_id \in OracleDataIds :
            /\ \A order \in Permutations(1..Len(Submissions(data_id))) :
                  Resolve([i \in 1..Len(Submissions(data_id)) |->
                              Submissions(data_id)[order[i]]])
                     = Resolve(Submissions(data_id))
            /\ {<<Submissions(data_id)[i][1], Submissions(data_id)[i][2]>> :
                   i \in 1..Len(Submissions(data_id))}
                  = {<<"o1", 100>>, <<"o2", 101>>, <<"o3", 102>>} =>
                  /\ Resolve(Submissions(data_id)).res = "Ok"
                  /\ Resolve(Submissions(data_id)).data.consensus_value = 101
                  /\ Resolve(Submissions(data_id)).data.accepted_count = 3

\* 102, 101 and 100 arrived in that order and the request has just been
\* resolved to 101 with three accepted.
C28_Witness ==
    /\ last.op = "resolve_oracle_data" /\ last.res = "Ok"
    /\ ValuesOf(Submissions(1)) = <<102, 101, 100>>
    /\ 1 \in DOMAIN oracle_st.resolution
    /\ oracle_st.resolution[1].consensus_value = 101
    /\ oracle_st.resolution[1].accepted_count = 3

\* The median by counting: Kth(k) is the k-th smallest of the values.
MiddleValue(values) ==
    LET Kth(k) == CHOOSE v \in {values[i] : i \in 1..Len(values)} :
                     /\ Cardinality({i \in 1..Len(values) : values[i] < v}) < k
                     /\ k <= Cardinality({i \in 1..Len(values) : values[i] <= v})
    IN IF Len(values) % 2 = 1 THEN Kth((Len(values) + 1) \div 2)
       ELSE (Kth(Len(values) \div 2) + Kth(Len(values) \div 2 + 1)) \div 2

\* The submitted values within the configured deviation of the middle value
\* of all of them, in order of arrival.
WithinDeviation(values) ==
    SelectSeq(values, LAMBDA v :
        Abs(v - MiddleValue(values)) * 100
            <= MiddleValue(values) * oracle_st.config.outlier_deviation)

RecordedFor(o, data_id, source) ==
    SelectSeq(SubmissionsOf(o, data_id), LAMBDA sub : sub[1] = source)

\* C30: one vote per oracle source: after a source's submission for a data
\* request has been accepted, any further submission by the same source for
\* the same request fails with DuplicateSubmission and leaves the recorded
\* submissions unchanged, so the source's first value is the one on record
\* for it in every later step, and so in every later resolution.
C30_OneVotePerSource ==
    [][ \A data_id \in OracleDataIds, source \in OracleSources :
            RecordedFor(oracle_st, data_id, source) # <<>> =>
               /\ \A value \in Offers[source] \cup {5000} :
                     LET r == submit_oracle_data(oracle_st, source, data_id, value,
                                                 timestamp(ledger))
                     IN /\ r.res = "DuplicateSubmission"
                        /\ r.st = oracle_st
               /\ RecordedFor(oracle_st', data_id, source)
                     = RecordedFor(oracle_st, data_id, source)
               /\ Len(RecordedFor(oracle_st, data_id, source)) = 1
      ]_vars

\* Source o1, on record with 1000 among at least three submissions, has just
\* been refused a second submission.
C30_Witness ==
    /\ last.op = "submit_oracle_data" /\ last.res = "DuplicateSubmission"
    /\ RecordedFor(oracle_st, 1, "o1") # <<>>
    /\ RecordedFor(oracle_st, 1, "o1")[1][2] = 1000
    /\ Len(Submissions(1)) >= 3

\* ---------------------------------------------------------------- dispute window
\* SpecDispute: raise_dispute on the dispute revision's storage.  The entry
\* points that decide a claim and set the member list are not part of the
\* sources, so the storage starts as any of: two claim ids, each absent or in
\* any status with no window end or one ending at time 0 or 1, and the member
\* list absent, empty or holding one or two accounts.
DisputeClaimIds == {1, 2}
DisputeClaims ==
    [id : DisputeClaimIds, claimant : {"user"}, status : DisputeStatuses,
     decision_ts : {<<>>}, dispute_window_end : {<<>>, <<0>>, <<1>>}]
DisputeStores ==
    {[claim |-> claim, dao_members |-> dao_members, dispute |-> <<>>, published |-> 0] :
        claim \in UNION {{c \in [ids -> DisputeClaims] : \A id \in ids : c[id].id = id} :
                            ids \in SUBSET DisputeClaimIds},
        dao_members \in {<<>>, <<{}>>, <<{"proc"}>>, <<{"proc", "admin"}>>}}

InitDispute ==
    /\ claims_st = ClaimsEmpty
    /\ pool_st = PoolEmpty
    /\ oracle_st = OracleEmpty
    /\ dispute_st \in DisputeStores
    /\ records_st = RecordsEmpty
    /\ ledger = 0
    /\ last = [op |-> "none", res |-> "Ok"]
    /\ hist = <<>>
    /\ reserved_ids = {}
    /\ paid_ids = {}

RaiseDispute ==
    \E claim_id \in DisputeClaimIds, raised_by \in Accounts :
        /\ dispute_st' = raise_dispute(dispute_st, claim_id, raised_by, "reason",
                                       timestamp(ledger)).st
        /\ last' = [op |-> "raise_dispute",
                    res |-> raise_dispute(dispute_st, claim_id, raised_by, "reason",
                                          timestamp(ledger)).res]
        /\ UNCHANGED <<claims_st, pool_st, oracle_st, records_st, ledger, hist, reserved_ids,
                       paid_ids>>

NextDispute ==
    \/ RaiseDispute
    \/ AdvanceLedger

SpecDispute == InitDispute /\ [][NextDispute]_vars

\* C31: raise_dispute changes a claim to Disputed only when the claim's status
\* is PendingSettlement, the current time is not past the claim's
\* dispute-window end, and the raiser is on the governance-member allowlist;
\* in every other case the call fails and the claim's status and the stored
\* disputes are unchanged.
C31_DisputeOnlyInWindowByMember ==
    \A claim_id \in DisputeClaimIds, raised_by \in Accounts :
        LET r == raise_dispute(dispute_st, claim_id, raised_by, "reason", timestamp(ledger))
        IN IF /\ claim_id \in DOMAIN dispute_st.claim
              /\ dispute_st.claim[claim_id].status = "PendingSettlement"
              /\ dispute_st.claim[claim_id].dispute_window_end # <<>>
              /\ timestamp(ledger) <= dispute_st.claim[claim_id].dispute_window_end[1]
              /\ dispute_st.dao_members # <<>>
              /\ raised_by \in dispute_st.dao_members[1]
           THEN /\ r.res = "Ok"
                /\ r.st.claim[claim_id].status = "Disputed"
                /\ claim_id \in DOMAIN r.st.dispute
                /\ \A other \in DOMAIN dispute_st.claim \ {claim_id} :
                      r.st.claim[other] = dispute_st.claim[other]
           ELSE /\ r.res # "Ok"
                /\ r.st.claim = dispute_st.claim
                /\ r.st.dispute = dispute_st.dispute

\* A dispute has just been raised at the very end of a claim's window, while
\* the other claim, also pending settlement, is past its window.
C31_Witness ==
    /\ last.op = "raise_dispute" /\ last.res = "Ok"
    /\ ledger = 1
    /\ DOMAIN dispute_st.claim = {1, 2}
    /\ dispute_st.claim[1].status = "Disputed"
    /\ dispute_st.claim[1].dispute_window_end = <<1>>
    /\ 1 \in DOMAIN dispute_st.dispute
    /\ dispute_st.claim[2].status = "PendingSettlement"
    /\ dispute_st.claim[2].dispute_window_end = <<0>>

C33_AlwaysAnAdmin ==
    pool_st.auth.admin # {} => \E identity \in Accounts : RoleOf(identity) = "Admin"

\* C34: in every reachable state of the risk pool all stored amounts are
\* non-negative and every earmark is positive: total_liquidity >= 0,
\* total_paid_out >= 0, reserved_total >= 0, every provider stake >= 0, and
\* every recorded reservation amount > 0.
C34_StoredAmountsNonNegative ==
    /\ pool_st.reserved_total >= 0
    /\ \A claim_id \in DOMAIN pool_st.reservation : pool_st.reservation[claim_id] > 0
    /\ \A provider \in DOMAIN pool_st.provider :
          pool_st.provider[provider][1] >= 0 /\ pool_st.provider[provider][2] >= 0
    /\ PoolReady =>
          pool_st.stats[1] >= 0 /\ pool_st.stats[2] >= 0 /\ pool_st.stats[3] >= 0

\* The pool after a deposit, a reservation and payouts of both kinds, with a
\* reservation on record and nothing left unreserved.
C34_Witness ==
    /\ PoolReady
    /\ pool_st.provider # <<>>
    /\ Reserved # {}
    /\ pool_st.stats[2] > 0
    /\ pool_st.stats[1] = pool_st.reserved_total
    /\ paid_ids # {}

RECURSIVE SumOf(_)
SumOf(f) ==
    IF DOMAIN f = {} THEN 0
    ELSE LET k == CHOOSE x \in DOMAIN f : TRUE
         IN f[k] + SumOf([x \in DOMAIN f \ {k} |-> f[x]])

\* C35: in every reachable state of the risk pool, reserved_total equals the
\* sum of the amounts of all currently recorded claim reservations (0 when
\* there are none).
C35_ReservedTotalIsSumOfReservations ==
    pool_st.reserved_total = SumOf(pool_st.reservation)

\* Two reservations are on record after a reserved payout has removed another.
C35_Witness ==
    /\ Cardinality(Reserved) >= 2
    /\ paid_ids # {}
    /\ pool_st.reserved_total >= 2

\* Stakes of the recorded providers: field 1 of each provider_info tuple.
Stakes == [provider \in DOMAIN pool_st.provider |-> pool_st.provider[provider][2]]

\* C36: pool funds are conserved: in every reachable state total_liquidity +
\* total_paid_out equals the sum of all successfully deposited amounts, which
\* also equals the sum of all providers' stakes, and total_paid_out never
\* decreases from one state to the next.
C36_PoolFundsConserved ==
    /\ [](PoolReady =>
            /\ pool_st.stats[1] + pool_st.stats[2] = pool_st.stats[3]
            /\ pool_st.stats[3] = SumOf(Stakes))
    /\ [][ (PoolReady /\ PoolReady') => pool_st'.stats[2] >= pool_st.stats[2] ]_vars

\* Two providers hold a stake and part of the deposits has been paid out.
C36_Witness ==
    /\ PoolReady
    /\ Cardinality(DOMAIN pool_st.provider) = 2
    /\ \A provider \in DOMAIN pool_st.provider : pool_st.provider[provider][2] > 0
    /\ pool_st.stats[2] > 0
    /\ pool_st.stats[1] > 0
    /\ last.op \in {"payout_claim", "payout_reserved_claim"} /\ last.res = "Ok"

\* Amounts of the claims whose status is Approved.
ApprovedAmounts ==
    [claim_id \in {c \in Claims : StatusOf(c) = "Approved"} |-> AmountOf(claim_id)]

Accepted(call) == call /\ last'.res = "Ok"
StartReviewByAdmin ==
    \E claim_id \in ClaimIds :
        Step("start_review", OnClaims(start_review(claims_st, "admin", claim_id)))
ApproveByAdmin ==
    \E claim_id \in ClaimIds :
        Step("approve_claim",
             OnBoth(approve_claim(claims_st, pool_st, "admin", claim_id, <<>>, TRUE)))
RejectByAdmin ==
    \E claim_id \in ClaimIds :
        Step("reject_claim", OnClaims(reject_claim(claims_st, "admin", claim_id)))
SettleByAdmin ==
    \E claim_id \in ClaimIds :
        Step("settle_claim", OnBoth(settle_claim(claims_st, pool_st, "admin", claim_id)))

SubmitByHolder ==
    \E policy_id \in DOMAIN PolicyStore :
        Step("submit_claim",
             OnClaims(submit_claim(claims_st, Holder(policy_id), policy_id, 1, ledger,
                                   timestamp(ledger))))
FundPoolOnce == DepositLiquidity({"user"}, {MaxI128 - 1})

NextLive ==
    \/ AdvanceLedger
    \/ ClaimsInitialize
    \/ PoolInitializeForClaims
    \/ SubmitByHolder
    \/ StartReviewByAdmin
    \/ ApproveByAdmin
    \/ RejectByAdmin
    \/ SettleByAdmin
    \/ FundPoolOnce

SpecLive ==
    /\ Init /\ [][NextLive]_vars
    /\ WF_vars(Accepted(StartReviewByAdmin))
    /\ WF_vars(Accepted(ApproveByAdmin))
    /\ WF_vars(Accepted(RejectByAdmin))
    /\ WF_vars(Accepted(SettleByAdmin))

\* Both contracts unpaused and registered as trusted to each other.
Connected ==
    /\ ~is_paused(claims_st) /\ ~is_paused(pool_st)
    /\ is_trusted_contract(pool_st.auth, ClaimsAddr)
    /\ is_trusted_contract(claims_st.auth, PoolAddr)

HasStatus(claim_id, statuses) == claim_id \in Claims /\ StatusOf(claim_id) \in statuses

MaxClaimId == 3

RecordStep(op, r) ==
    /\ records_st' = r.st
    /\ last' = [op |-> op, res |-> r.res]
    /\ UNCHANGED <<claims_st, pool_st, oracle_st, dispute_st, ledger, reserved_ids, paid_ids>>

RecordInitialize ==
    /\ RecordStep("initialize", record_initialize(records_st, "admin", PolicyAddr, PoolAddr))
    /\ UNCHANGED hist

RecordSubmitClaim ==
    \E invoker \in {"user", "proc"}, policy_id \in {1, 2}, claim_amount \in {1, 2},
       build \in Builds :
        LET r == record_submit_claim(records_st, invoker, policy_id, claim_amount,
                                     timestamp(ledger), build)
        IN /\ "data" \in DOMAIN records_st => records_st["data"].next_claim_id <= MaxClaimId
           /\ RecordStep("submit_claim", r)
           /\ hist' = IF r.res = "Ok" THEN Put(hist, r.val, <<policy_id, claim_amount>>)
                       ELSE hist

RecordApproveClaim ==
    \E caller \in {"admin", "user"}, claim_id \in 1..MaxClaimId :
        /\ RecordStep("approve_claim", record_approve_claim(records_st, caller, claim_id))
        /\ UNCHANGED hist

RecordRejectClaim ==
    \E caller \in {"admin", "user"}, claim_id \in 1..MaxClaimId :
        /\ RecordStep("reject_claim", record_reject_claim(records_st, caller, claim_id))
        /\ UNCHANGED hist

RecordSettleClaim ==
    \E caller \in {"admin", "user"}, claim_id \in 1..MaxClaimId, build \in Builds :
        /\ RecordStep("settle_claim",
                      record_settle_claim(records_st, caller, claim_id, timestamp(ledger),
                                          build))
        /\ UNCHANGED hist

NextRecords ==
    \/ AdvanceLedger
    \/ RecordInitialize
    \/ RecordSubmitClaim
    \/ RecordApproveClaim
    \/ RecordRejectClaim
    \/ RecordSettleClaim

SpecRecords == Init /\ [][NextRecords]_vars

\* Ids that submit_claim has returned.
ReturnedIds == DOMAIN hist

\* C39: claims are stored per id: for every id that submit_claim has returned,
\* get_claim(id) returns the claim created by that submission (same id,
\* policy_id and amount), however many claims were submitted afterwards, and
\* approve_claim, reject_claim or settle_claim on one id never change another
\* claim: such a call changes what get_claim returns for at most one id.
C39_ClaimsStoredPerId ==
    /\ [](\A claim_id \in ReturnedIds :
            LET got == record_get_claim(records_st, claim_id)
            IN /\ got.res = "Ok"
               /\ got.val.id = claim_id
               /\ got.val.policy_id = hist[claim_id][1]
               /\ got.val.claim_amount = hist[claim_id][2])
    /\ [][ last'.op \in {"approve_claim", "reject_claim", "settle_claim"} =>
             Cardinality({claim_id \in ReturnedIds :
                            record_get_claim(records_st', claim_id)
                               # record_get_claim(records_st, claim_id)}) <= 1 ]_vars
====
